---------------------------- MODULE Spec2Model ----------------------------
(***************************************************************************)
(* Model of the adaptive player-modelling loop of Efireon/nightmare:       *)
(* the ObserverSystem (event ingestion, bounded histories, observation     *)
(* context, scare recommendations) and the Director (trigger decision,     *)
(* scare construction and execution) together with the Player's sanity and *)
(* the World's creature list.                                              *)
(*                                                                         *)
(* Numbers.  float64 quantities are fixed-point integers in thousandths    *)
(* (0.3 is 300, a sanity of 100 is 100000).  time.Time and time.Duration   *)
(* are whole seconds.  Draws of rand.Float64() are thousandths in 0..999.  *)
(* A Go interface{} value is a record [tag, x, y]: tag names the dynamic   *)
(* type ("nil" for a nil interface), x (and y for a vector) the value.     *)
(***************************************************************************)
EXTENDS Integers, Sequences, FiniteSets, TLC

VARIABLES
    now,                 \* wall clock (time.Now()), seconds
    player,              \* entity.Player: Sanity, Position, ActionLog
    playerActions,       \* ObserverSystem.playerActions
    fearResponses,       \* ObserverSystem.fearResponses, an absent key is <<>>
    fearProfile,         \* ObserverSystem.fearProfile
    context,             \* ObserverSystem.context
    reactorProfile,      \* ObserverSystem.reactorProfile
    predictedActions,    \* ObserverSystem.predictedActions
    lastObservationTime, \* ObserverSystem.lastObservationTime
    recommendedScares,   \* ObserverSystem.recommendedScares
    tension,             \* Director.tension
    movementPreference,  \* Director.playerBehavior.MovementPreference
    lastAnalysisTime,    \* Director.lastAnalysisTime
    scareHistory,        \* Director.scareHistory
    entities,            \* World.Entities
    envCalls,            \* calls of World.ModifyEnvironment, in order: they determine World.Tiles
    game,                \* Game: state, frameCount
    analyzer,            \* the fields of the Analyzer
    eventManager,        \* event.EventManager: listeners, customListeners, queuedEvents, mutex
    goroutines,          \* the callers of the EventManager: where each one is, and its locals
    eventLog,            \* history variable: the events appended, the callbacks called, the batches taken
    insertedActions,     \* history variable: every record given to addPlayerAction
    insertedResponses,   \* history variable: every response given to recordFearResponse, per kind
    nEvents,             \* history variable: number of events the Observer handled
    nTicks,              \* history variable: number of analysis ticks
    analysedResponses,   \* history variable: per kind, the responses inserted up to the last analysis
    last                 \* history variable: the operation that ran last, with its input

vars == <<now, player, playerActions, fearResponses, fearProfile, context,
          reactorProfile, predictedActions, lastObservationTime, recommendedScares, tension, movementPreference, lastAnalysisTime,
          scareHistory, entities, envCalls, game, analyzer,
          eventManager, goroutines, eventLog,
          insertedActions, insertedResponses, nEvents, nTicks, analysedResponses,
          last>>

observerVars == <<playerActions, fearResponses, fearProfile, context, reactorProfile,
                  predictedActions, lastObservationTime, recommendedScares>>
analysisVars == <<fearProfile, reactorProfile, predictedActions, lastObservationTime,
                  recommendedScares>>
directorVars == <<tension, movementPreference, lastAnalysisTime, scareHistory>>
worldVars == <<entities, envCalls>>
eventVars == <<eventManager, goroutines, eventLog>>
historyVars == <<insertedActions, insertedResponses, nEvents, nTicks, analysedResponses>>

-----------------------------------------------------------------------------
(* Bounds of the model *)

\* events handled by the Observer in one behaviour
MaxEvents == 3
\* the clock stops advancing here: for the Director, for the Observer
MaxTime == 61
MaxObserverTime == 5
\* scare events the Director fires in one behaviour
MaxScares == 2
\* calls of World.ModifyEnvironment on one world
MaxEnvCalls == 4
\* calls of Game.Update in one behaviour, and the seconds that pass in them
MaxUpdates == 32
MaxGameSeconds == 1
\* how far below their capacity the histories of a long-running Observer start,
\* and the events it is followed for
PreloadGap == 0
LongRunEvents == 2
\* analysis cycles of the Observer in one behaviour
MaxTicks == 3
\* entries the player adds to the action log in one behaviour
MaxLog == 1
\* recommendation passes on one drawn input
MaxPasses == 1
\* the events an Observer with a preloaded action history is followed for
ReactorEvents == 2
\* moves, interactions and recorded responses the Analyzer is followed for
PatternEvents == 2
\* the clock of an Observer followed through its updates stops here, and the
\* hits and pills the player takes meanwhile
MaxUpdateTime == 10
UpdateEvents == 2
\* the actions of the player a running Director is followed for
TensionEvents == 1
\* calls of Trigger and of ProcessEvents in one behaviour
MaxTriggered == 3
MaxDrains == 2

-----------------------------------------------------------------------------
(* Enumerations (iota constants) *)

FearDarkness == 0
FearCreatures == 1
FearSuddenNoises == 2
FearIsolation == 3
FearChasing == 4
FearGore == 5
FearClaustrophobia == 6
FearOpenSpaces == 7
FearUnknown == 8
FearTypes == FearDarkness..FearUnknown

ActionMove == 0
ActionRun == 1
ActionHide == 2
ActionInteract == 3
ActionAttack == 4
ActionInvestigate == 5
ActionRetreat == 6
ActionFreeze == 7
ActionTypes == ActionMove..ActionFreeze

ReactorCautious == 0
ReactorBold == 1
ReactorPanic == 2
ReactorMethodical == 3
ReactorReckless == 4
ReactorHesitant == 5
ReactorTypes == ReactorCautious..ReactorHesitant

EventAmbientSound == 0
EventSuddenNoise == 1
EventCreatureAppearance == 2
EventEnvironmentChange == 3
EventHallucination == 4
EventWhisper == 5
ScareEventTypes == EventAmbientSound..EventWhisper

\* history capacities
maxActions == 1000
maxResponses == 20

-----------------------------------------------------------------------------
(* Helpers *)

Min(a, b) == IF a < b THEN a ELSE b
Max(a, b) == IF a > b THEN a ELSE b
Abs(a) == IF a < 0 THEN -a ELSE a

\* s[len(s)-n:] of Go
LastN(s, n) == SubSeq(s, Len(s) - n + 1, Len(s))

\* interface{} values
Nil == [tag |-> "nil", x |-> 0, y |-> 0]
Float(v) == [tag |-> "float64", x |-> v, y |-> 0]
IntVal(v) == [tag |-> "int", x |-> v, y |-> 0]
Vec(a, b) == [tag |-> "entity.Vector2D", x |-> a, y |-> b]
Creature(id) == [tag |-> "*entity.Creature", x |-> id, y |-> 0]
Object(id) == [tag |-> "*world.Object", x |-> id, y |-> 0]
ScareKind(k) == [tag |-> "ai.ScareEventType", x |-> k, y |-> 0]
CommonScareKind(k) == [tag |-> "common.ScareEventType", x |-> k, y |-> 0]

Vector2D(a, b) == [X |-> a, Y |-> b]

-----------------------------------------------------------------------------
(* event.EventData and the payloads the model enumerates *)

EventPlayerMoved == 0
EventPlayerDamaged == 1
EventPlayerInteracted == 2
EventPlayerSanityChanged == 3
EventScareTriggered == 8

\* Custom: isNil is a nil map; a key that is absent reads as Nil, as in Go
NilCustom == [isNil |-> TRUE, oldPosition |-> Nil, oldValue |-> Nil,
              newValue |-> Nil, scareType |-> Nil]
EmptyCustom == [NilCustom EXCEPT !.isNil = FALSE]

EventData(type, source, target, position, value, custom) ==
    [Type |-> type, Source |-> source, Target |-> target, Position |-> position,
     Value |-> value, Timestamp |-> now, Custom |-> custom]

NoEvent == [Type |-> -1, Source |-> Nil, Target |-> Nil, Position |-> Nil,
            Value |-> Nil, Timestamp |-> 0, Custom |-> NilCustom]

\* event.NewPlayerMovedEvent, plus payloads with a missing or mistyped position
MovedEvents ==
    { EventData(EventPlayerMoved, Nil, Nil, Nil, Float(1000), EmptyCustom),
      EventData(EventPlayerMoved, Nil, Nil, IntVal(7), Float(2000),
                [EmptyCustom EXCEPT !.oldPosition = Vec(1, 1)]),
      EventData(EventPlayerMoved, Nil, Nil, Vec(1, 0), Nil, EmptyCustom),
      EventData(EventPlayerMoved, Nil, Nil, Vec(2, 3), Float(2000),
                [EmptyCustom EXCEPT !.oldPosition = Vec(1, 1)]) }

\* event.NewPlayerDamagedEvent, plus a payload without source
DamagedEvents ==
    { EventData(EventPlayerDamaged, src, Nil, Nil, Float(5000), NilCustom) :
        src \in {Nil, Creature(1)} }

\* event.NewPlayerInteractedEvent, plus a payload without target
InteractedEvents ==
    { EventData(EventPlayerInteracted, Nil, tgt, Nil, Nil, NilCustom) :
        tgt \in {Nil, Object(1)} }

\* event.NewPlayerSanityChangedEvent (Value = newValue - oldValue), plus
\* payloads with a missing or mistyped value
SanityChangedEvents ==
    { EventData(EventPlayerSanityChanged, src, Nil, Nil, Float(nv - 50000),
                [EmptyCustom EXCEPT !.oldValue = Float(50000), !.newValue = Float(nv)]) :
        src \in {Nil, Creature(1)}, nv \in {40000, 52000} }
    \cup
    { EventData(EventPlayerSanityChanged, Creature(1), Nil, Nil, v, EmptyCustom) :
        v \in {Nil, IntVal(-10)} }

\* event.NewScareEvent, plus payloads with a missing or mistyped scare kind
ScareEvents ==
    { EventData(EventScareTriggered, Nil, Nil, Nil, Float(800),
                [EmptyCustom EXCEPT !.scareType = k]) :
        k \in {Nil, CommonScareKind(EventSuddenNoise), IntVal(2),
               ScareKind(EventSuddenNoise), ScareKind(EventCreatureAppearance),
               ScareKind(9)} }
    \cup
    { EventData(EventScareTriggered, Nil, Nil, Nil, Float(800), NilCustom),
      EventData(EventScareTriggered, Nil, Nil, Nil, Nil,
                [EmptyCustom EXCEPT !.scareType = ScareKind(EventWhisper)]) }

\* sudden noises with the intensities 0.2, 0.4, 0.6
StrengthScareEvents ==
    { EventData(EventScareTriggered, Nil, Nil, Nil, Float(v),
                [EmptyCustom EXCEPT !.scareType = ScareKind(EventSuddenNoise)]) :
        v \in {200, 400, 600} }

\* a creature takes 10 or 30 of the player's sanity
SanityLossEvents ==
    { EventData(EventPlayerSanityChanged, Creature(1), Nil, Nil, Float(nv - 80000),
                [EmptyCustom EXCEPT !.oldValue = Float(80000), !.newValue = Float(nv)]) :
        nv \in {70000, 50000} }

\* event.NewPlayerSanityChangedEvent for a loss, no change and a gain of sanity,
\* caused by a creature, by an object or by nothing
SanityOutcomeEvents ==
    { EventData(EventPlayerSanityChanged, src, Nil, Nil, Float(nv - 50000),
                [EmptyCustom EXCEPT !.oldValue = Float(50000), !.newValue = Float(nv)]) :
        src \in {Nil, Creature(1), Object(1)}, nv \in {40000, 50000, 52000} }

-----------------------------------------------------------------------------
(* ObserverSystem: histories *)

\* mutant: on overflow the newest record is cut off instead of the oldest
addPlayerAction_keepOldest(actions, action) ==
    LET appended == Append(actions, action)
    IN  IF Len(appended) > maxActions
        THEN SubSeq(appended, 1, maxActions)
        ELSE appended

\* the slice addPlayerAction leaves in o.playerActions
addPlayerAction(actions, action) ==
    LET appended == Append(actions, action)
    IN  IF Len(appended) > maxActions
        THEN LastN(appended, maxActions)
        ELSE appended

\* mutant: the length test is off by one, a kind grows to 21 responses
recordFearResponse_offByOne(responses, response) ==
    LET appended == Append(responses[response.FearType], response)
    IN  [responses EXCEPT ![response.FearType] =
            IF Len(appended) > maxResponses + 1
            THEN LastN(appended, maxResponses)
            ELSE appended]

\* the map recordFearResponse leaves in o.fearResponses
recordFearResponse(responses, response) ==
    LET appended == Append(responses[response.FearType], response)
    IN  [responses EXCEPT ![response.FearType] =
            IF Len(appended) > maxResponses
            THEN LastN(appended, maxResponses)
            ELSE appended]

\* mutant: the source is not looked at
determineFearType_ignoringSource(source) == FearUnknown

determineFearType(source) ==
    IF source.tag = "*entity.Creature" THEN FearCreatures ELSE FearUnknown

\* mutant: a kind outside the switch is filed like a whisper
mapScareEventToFearType_noDefault(scareType) ==
    CASE scareType = EventSuddenNoise -> FearSuddenNoises
      [] scareType = EventCreatureAppearance -> FearCreatures
      [] scareType = EventEnvironmentChange -> FearUnknown
      [] OTHER -> FearIsolation

mapScareEventToFearType(scareType) ==
    CASE scareType = EventAmbientSound -> FearIsolation
      [] scareType = EventSuddenNoise -> FearSuddenNoises
      [] scareType = EventCreatureAppearance -> FearCreatures
      [] scareType = EventEnvironmentChange -> FearUnknown
      [] scareType = EventHallucination -> FearIsolation
      [] scareType = EventWhisper -> FearIsolation
      [] OTHER -> FearUnknown

PlayerAction(type, position, direction, target, timestamp) ==
    [Type |-> type, Position |-> position, Direction |-> direction,
     Target |-> target, Timestamp |-> timestamp]

FearResponse(fearType, strength, sanityLoss) ==
    [FearType |-> fearType, StrengthOfFear |-> strength, SanityLoss |-> sanityLoss]

\* a handler that appends one action record
AppendAction(action) ==
    /\ playerActions' = addPlayerAction(playerActions, action)
    /\ insertedActions' = Append(insertedActions, action)
    /\ UNCHANGED <<fearResponses, insertedResponses>>

\* a handler that files one fear response
AppendResponse(response) ==
    /\ fearResponses' = recordFearResponse(fearResponses, response)
    /\ insertedResponses' =
          [insertedResponses EXCEPT ![response.FearType] = Append(@, response)]
    /\ UNCHANGED <<playerActions, insertedActions>>

\* a handler that returns early
Rejected == UNCHANGED <<playerActions, insertedActions, fearResponses, insertedResponses>>

-----------------------------------------------------------------------------
(* ObserverSystem: the five event handlers *)

\* v.(T) of Go, the ok result
isVector2D(v) == v.tag = "entity.Vector2D"
isFloat64(v) == v.tag = "float64"
\* mutant: the scare kind is taken without its type being checked
isScareEventType_unchecked(v) == TRUE
isScareEventType(v) == v.tag = "ai.ScareEventType"

recordMovement(data) ==
    /\ IF data.Position = Nil
       THEN Rejected
       ELSE IF ~isVector2D(data.Position)
       THEN Rejected
       ELSE LET position == Vector2D(data.Position.x, data.Position.y)
                prevPos == data.Custom.oldPosition
                oldPosition == IF isVector2D(prevPos)
                               THEN Vector2D(prevPos.x, prevPos.y)
                               ELSE Vector2D(0, 0)
                direction == Vector2D(position.X - oldPosition.X,
                                      position.Y - oldPosition.Y)
                actionType == IF isFloat64(data.Value) /\ data.Value.x > 1500
                              THEN ActionRun
                              ELSE ActionMove
            IN  AppendAction(PlayerAction(actionType, position, direction, Nil,
                                          data.Timestamp))
    /\ UNCHANGED context

recordDamage(data) ==
    /\ IF data.Source = Nil
       THEN Rejected
       ELSE AppendAction(PlayerAction(ActionFreeze, player.Position, Vector2D(0, 0),
                                      data.Source, data.Timestamp))
    /\ UNCHANGED context

recordSanityChange(data) ==
    /\ IF data.Value = Nil
       THEN Rejected
       ELSE IF ~isFloat64(data.Value)
       THEN Rejected
       ELSE LET sanityChange == data.Value.x
                oldValue == IF isFloat64(data.Custom.oldValue)
                            THEN data.Custom.oldValue.x ELSE 0
                newValue == IF isFloat64(data.Custom.newValue)
                            THEN data.Custom.newValue.x ELSE 0
                fearType == IF data.Source # Nil
                            THEN determineFearType(data.Source)
                            ELSE FearUnknown
            IN  IF sanityChange < 0
                THEN AppendResponse(FearResponse(fearType, Abs(sanityChange) \div 20,
                                                 oldValue - newValue))
                ELSE Rejected
    /\ UNCHANGED context

recordInteraction(data) ==
    /\ IF data.Target = Nil
       THEN Rejected
       ELSE AppendAction(PlayerAction(ActionInteract, player.Position, Vector2D(0, 0),
                                      data.Target, data.Timestamp))
    /\ UNCHANGED context

\* mutant: the reset is left out
resetTimeSinceLastScare_missing(ctx) == ctx
\* o.context.TimeSinceLastScare = 0
resetTimeSinceLastScare(ctx) == [ctx EXCEPT !.TimeSinceLastScare = 0]

recordScareResponse(data) ==
    IF data.Custom.isNil \/ data.Custom.scareType = Nil
    THEN Rejected /\ UNCHANGED context
    ELSE IF ~isScareEventType(data.Custom.scareType)
    THEN Rejected /\ UNCHANGED context
    ELSE LET scareType == data.Custom.scareType.x
             fearType == mapScareEventToFearType(scareType)
             intensity == IF isFloat64(data.Value) THEN data.Value.x ELSE 500
         IN  /\ AppendResponse(FearResponse(fearType, intensity,
                                            context.RecentSanityLoss))
             /\ context' = resetTimeSinceLastScare(context)

\* what every event dispatch leaves alone
HandlerFrame(op, data) ==
    /\ nEvents' = nEvents + 1
    /\ nTicks' = nTicks
    /\ last' = [op |-> op, data |-> data, draw |-> 0, fired |-> FALSE]
    /\ UNCHANGED <<now, player, analysisVars, directorVars, worldVars, analyzer, eventVars, game,
                   analysedResponses>>

OnPlayerMoved ==
    /\ nEvents < MaxEvents
    /\ \E data \in MovedEvents :
          recordMovement(data) /\ HandlerFrame("recordMovement", data)

OnPlayerDamaged ==
    /\ nEvents < MaxEvents
    /\ \E data \in DamagedEvents :
          recordDamage(data) /\ HandlerFrame("recordDamage", data)

OnPlayerSanityChanged ==
    /\ nEvents < MaxEvents
    /\ \E data \in SanityChangedEvents :
          recordSanityChange(data) /\ HandlerFrame("recordSanityChange", data)

OnPlayerInteracted ==
    /\ nEvents < MaxEvents
    /\ \E data \in InteractedEvents :
          recordInteraction(data) /\ HandlerFrame("recordInteraction", data)

OnScareTriggered ==
    /\ nEvents < MaxEvents
    /\ \E data \in ScareEvents :
          recordScareResponse(data) /\ HandlerFrame("recordScareResponse", data)

OnSanityLoss ==
    /\ nEvents < MaxEvents
    /\ \E data \in SanityLossEvents :
          recordSanityChange(data) /\ HandlerFrame("recordSanityChange", data)

OnSanityOutcome ==
    /\ nEvents < MaxEvents
    /\ \E data \in SanityOutcomeEvents :
          recordSanityChange(data) /\ HandlerFrame("recordSanityChange", data)

OnScareStrength ==
    /\ nEvents < MaxEvents
    /\ \E data \in StrengthScareEvents :
          recordScareResponse(data) /\ HandlerFrame("recordScareResponse", data)

-----------------------------------------------------------------------------
(* ObserverSystem: analysis *)

RECURSIVE SumStrength(_)
SumStrength(responses) ==
    IF responses = <<>> THEN 0
    ELSE Head(responses).StrengthOfFear + SumStrength(Tail(responses))

CountType(actions, type) ==
    Cardinality({i \in 1..Len(actions) : actions[i].Type = type})

SetMin(S) == CHOOSE v \in S : \A w \in S : v <= w
SetMax(S) == CHOOSE v \in S : \A w \in S : v >= w

\* mutant: when all values are the same every score becomes 0
normalizeProfile_degenerateZero(profile) ==
    LET values == {profile[k] : k \in DOMAIN profile}
        min == SetMin(values)
        max == SetMax(values)
    IN  [k \in DOMAIN profile |->
            IF max > min
            THEN ((profile[k] - min) * 1000) \div (max - min)
            ELSE 0]

\* (value - min) / (max - min), 0.5 when all values are the same
normalizeProfile(profile) ==
    LET values == {profile[k] : k \in DOMAIN profile}
        min == SetMin(values)
        max == SetMax(values)
    IN  [k \in DOMAIN profile |->
            IF max > min
            THEN ((profile[k] - min) * 1000) \div (max - min)
            ELSE 500]

\* the raw scores are count sums over len(playerActions); normalizeProfile
\* divides differences of them, so the common divisor drops out
rawReactorScores(actions) ==
    LET c(t) == CountType(actions, t)
    IN  [k \in ReactorTypes |->
            CASE k = ReactorCautious ->
                   c(ActionHide) + c(ActionRetreat) - c(ActionAttack)
              [] k = ReactorBold ->
                   c(ActionAttack) + c(ActionInvestigate) - c(ActionHide)
              [] k = ReactorPanic -> c(ActionRun) + c(ActionFreeze)
              [] k = ReactorMethodical -> c(ActionInvestigate) + c(ActionInteract)
              [] k = ReactorReckless ->
                   c(ActionRun) + c(ActionAttack) - c(ActionHide)
              [] k = ReactorHesitant -> c(ActionFreeze) - c(ActionInteract)]

\* mutant: the profile is recomputed however few records there are
analyzeReactorProfile_noMinimum(profile, actions) ==
    normalizeProfile(rawReactorScores(actions))

analyzeReactorProfile(profile, actions) ==
    IF Len(actions) < 10
    THEN profile
    ELSE normalizeProfile(rawReactorScores(actions))

\* mutant: the weights of the old value and of the mean are exchanged
analyzeFearProfile_weightsSwapped(profile, responses) ==
    [k \in FearTypes |->
        IF responses[k] = <<>>
        THEN profile[k]
        ELSE (profile[k] * 3 * Len(responses[k]) + 7 * SumStrength(responses[k]))
             \div (10 * Len(responses[k]))]

\* old*0.7 + mean(strengths)*0.3 for every kind that holds responses
analyzeFearProfile(profile, responses) ==
    IF \A k \in FearTypes : responses[k] = <<>>
    THEN profile
    ELSE [k \in FearTypes |->
            IF responses[k] = <<>>
            THEN profile[k]
            ELSE (profile[k] * 7 * Len(responses[k]) + 3 * SumStrength(responses[k]))
                 \div (10 * Len(responses[k]))]

\* mutant: the kind the scan starts from is returned, whatever the values
DominantReactorTypes_first(profile) == {ReactorCautious}

\* map iteration order is unspecified: any kind holding the maximum may win
DominantReactorTypes(profile) ==
    {k \in ReactorTypes : \A j \in ReactorTypes : profile[j] <= profile[k]}

PredictionTable(reactor) ==
    LET zero == [a \in ActionTypes |-> 0]
    IN  CASE reactor = ReactorCautious ->
               [zero EXCEPT ![ActionHide] = 400, ![ActionRetreat] = 300,
                            ![ActionMove] = 200, ![ActionInvestigate] = 100]
          [] reactor = ReactorBold ->
               [zero EXCEPT ![ActionInvestigate] = 400, ![ActionAttack] = 300,
                            ![ActionMove] = 200, ![ActionInteract] = 100]
          [] reactor = ReactorPanic ->
               [zero EXCEPT ![ActionRun] = 500, ![ActionFreeze] = 300,
                            ![ActionRetreat] = 200]
          [] reactor = ReactorMethodical ->
               [zero EXCEPT ![ActionInvestigate] = 400, ![ActionInteract] = 300,
                            ![ActionMove] = 200, ![ActionHide] = 100]
          [] reactor = ReactorReckless ->
               [zero EXCEPT ![ActionRun] = 400, ![ActionAttack] = 300,
                            ![ActionMove] = 200, ![ActionInvestigate] = 100]
          [] reactor = ReactorHesitant ->
               [zero EXCEPT ![ActionFreeze] = 400, ![ActionMove] = 300,
                            ![ActionRetreat] = 200, ![ActionHide] = 100]

\* the outcomes of predictActions
predictActions(profile) == {PredictionTable(r) : r \in DominantReactorTypes(profile)}

-----------------------------------------------------------------------------
(* ObserverSystem: recommendations *)

\* e^(-t/60) in ten-thousandths, by repeated multiplication with e^(-1/60)
RECURSIVE ExpNeg60(_)
ExpNeg60(t) ==
    IF t <= 0 THEN 10000 ELSE (ExpNeg60(t - 1) * 9835) \div 10000

\* 1 - e^(-t/60), thousandths
timeFactor(t) == (10000 - ExpNeg60(t)) \div 10

\* the outcomes of chooseScareTypeForFearType
chooseScareTypeForFearType(fearType) ==
    CASE fearType = FearDarkness -> {EventEnvironmentChange}
      [] fearType = FearCreatures -> {EventCreatureAppearance}
      [] fearType = FearSuddenNoises -> {EventSuddenNoise}
      [] fearType = FearIsolation -> {EventWhisper}
      [] fearType = FearChasing -> {EventCreatureAppearance}
      [] fearType = FearGore -> {EventHallucination}
      [] fearType = FearClaustrophobia -> {EventEnvironmentChange}
      [] fearType = FearOpenSpaces -> {EventCreatureAppearance}
      [] fearType = FearUnknown -> ScareEventTypes
      [] OTHER -> {EventAmbientSound}

\* float64 has the value NaN (not a number); the model writes it as an integer
\* that no finite quantity of the model takes
NaN == -2147483647
IsNaN(x) == x = NaN

\* float64 arithmetic and comparison: NaN in, NaN out; x > y is false on NaN
fmul(x, y) == IF IsNaN(x) \/ IsNaN(y) THEN NaN ELSE x * y
fsub(x, y) == IF IsNaN(x) \/ IsNaN(y) THEN NaN ELSE x - y
fgt(x, y) == ~IsNaN(x) /\ ~IsNaN(y) /\ x > y
fge(x, y) == ~IsNaN(x) /\ ~IsNaN(y) /\ x >= y

\* math.Max and math.Min: NaN if either argument is NaN
mathMax(x, y) == IF IsNaN(x) \/ IsNaN(y) THEN NaN ELSE Max(x, y)
mathMin(x, y) == IF IsNaN(x) \/ IsNaN(y) THEN NaN ELSE Min(x, y)

\* the outcomes of GetDominantFear: the scan starts from -1.0 and FearUnknown
\* and moves on to every value that compares greater, in map order; a NaN
\* never compares greater
GetDominantFear(profile) ==
    LET candidates == {k \in FearTypes : fgt(profile[k], -1000)}
    IN  IF candidates = {} THEN {FearUnknown}
        ELSE {k \in candidates : \A j \in candidates : ~fgt(profile[j], profile[k])}

\* Intensity is in units of 10^-8: profile (10^-3) times (200 - sanity) (10^-3),
\* over 100; Priority in units of 1/2000000: profile times (1 + timeFactor) over 2
IntensityFloor == 30000000
IntensityCeil == 100000000

clampIntensity(intensity) == mathMax(IntensityFloor, mathMin(IntensityCeil, intensity))

generateRecommendationForFearType(fearType, scareType, profile, ctx, position) ==
    [ScareType |-> scareType,
     FearTarget |-> fearType,
     Intensity |-> clampIntensity(fmul(profile[fearType],
                                       fsub(200000, ctx.CurrentSanity))),
     Position |-> position,
     Timing |-> IF ctx.TimeSinceLastScare < 30 THEN 30 ELSE 10,
     Priority |-> fmul(profile[fearType], 1000 + timeFactor(ctx.TimeSinceLastScare))]

\* the outcomes of getEffectiveFearTypes: the first three of the kinds after
\* sort.Slice, which starts from map order and leaves no kind directly before
\* one that compares greater; the kinds behind the third can be put in such
\* an order when one of them is exceeded by none of them and does not exceed
\* the third
getEffectiveFearTypes(profile) ==
    {ft \in [1..3 -> FearTypes] :
        /\ ft[1] # ft[2] /\ ft[1] # ft[3] /\ ft[2] # ft[3]
        /\ ~fgt(profile[ft[2]], profile[ft[1]])
        /\ ~fgt(profile[ft[3]], profile[ft[2]])
        /\ LET rest == FearTypes \ {ft[1], ft[2], ft[3]}
           IN  \E r \in rest :
                  /\ ~fgt(profile[r], profile[ft[3]])
                  /\ \A k \in rest : ~fgt(profile[k], profile[r])}

\* the orders sort.Slice may leave: no recommendation directly before one of
\* greater priority, equal priorities in any order
sortByPriority(recs) ==
    {sorted \in [1..Len(recs) -> {recs[i] : i \in 1..Len(recs)}] :
        /\ \E perm \in [1..Len(recs) -> 1..Len(recs)] :
              /\ \A i, j \in 1..Len(recs) : i # j => perm[i] # perm[j]
              /\ \A i \in 1..Len(recs) : sorted[i] = recs[perm[i]]
        /\ \A i \in 1..(Len(recs) - 1) :
              ~fgt(sorted[i + 1].Priority, sorted[i].Priority)}

\* the lists GenerateScareRecommendations may leave in o.recommendedScares
GenerateScareRecommendations(profile, ctx, position) ==
    UNION { UNION { sortByPriority(
                      [i \in 1..3 |->
                          generateRecommendationForFearType(ft[i], st[i], profile,
                                                            ctx, position)]) :
                    st \in {c \in [1..3 -> ScareEventTypes] :
                               \A i \in 1..3 : c[i] \in chooseScareTypeForFearType(ft[i])} } :
            ft \in getEffectiveFearTypes(profile) }

\* one call of GenerateScareRecommendations on the Observer's present state
RecommendationPass ==
    /\ nTicks < MaxPasses
    /\ nTicks' = nTicks + 1
    /\ recommendedScares' \in
          GenerateScareRecommendations(fearProfile, context, player.Position)
    /\ last' = [op |-> "GenerateScareRecommendations", data |-> NoEvent, draw |-> 0,
                fired |-> FALSE]
    /\ UNCHANGED <<now, player, playerActions, fearResponses, fearProfile, context,
                   reactorProfile, predictedActions, lastObservationTime,
                   insertedActions, insertedResponses, nEvents, analysedResponses,
                   directorVars, worldVars, analyzer, eventVars, game>>

\* a *ScareRecommendation: nil, or the address of an entry of the list
NilRecommendation == [isNil |-> TRUE]
AddressOf(recommendation) == [isNil |-> FALSE, value |-> recommendation]

GetScareRecommendation(recs) ==
    IF Len(recs) = 0 THEN NilRecommendation ELSE AddressOf(recs[1])

-----------------------------------------------------------------------------
(* ObserverSystem.Update *)

observationInterval == 5

\* mutant: the pass runs in every update
analysisDue_always(currentTime, lastTime) == TRUE

\* currentTime.Sub(o.lastObservationTime) >= o.observationInterval
analysisDue(currentTime, lastTime) == currentTime - lastTime >= observationInterval

\* mutant: a gain of sanity is written as a negative loss
updateContext_noClamp(ctx, sanity) ==
    [ctx EXCEPT !.CurrentSanity = sanity,
                !.RecentSanityLoss = ctx.CurrentSanity - sanity,
                !.TimeSinceLastScare = ctx.TimeSinceLastScare + 1]

\* the player is never nil: NewObserverSystem reads player.Sanity
updateContext(ctx, sanity) ==
    [ctx EXCEPT !.CurrentSanity = sanity,
                !.RecentSanityLoss = Max(0, ctx.CurrentSanity - sanity),
                !.TimeSinceLastScare = ctx.TimeSinceLastScare + 1]

\* what ObserverSystem.AnalyzePlayerBehavior writes
BehaviorAnalysis ==
    LET newFear == analyzeFearProfile(fearProfile, fearResponses)
        newReactor == analyzeReactorProfile(reactorProfile, playerActions)
    IN  /\ reactorProfile' = newReactor
        /\ fearProfile' = newFear
        /\ predictedActions' \in predictActions(newReactor)
        /\ analysedResponses' = [k \in FearTypes |-> Len(insertedResponses[k])]

\* AnalyzePlayerBehavior, then GenerateScareRecommendations on the new profile
\* and the context of before this tick
AnalysisPass ==
    /\ BehaviorAnalysis
    /\ recommendedScares' \in
          GenerateScareRecommendations(fearProfile', context, player.Position)
    /\ lastObservationTime' = now

Update ==
    /\ nTicks < MaxTicks
    /\ IF analysisDue(now, lastObservationTime)
       THEN AnalysisPass
       ELSE UNCHANGED <<analysisVars, analysedResponses>>
    /\ context' = updateContext(context, player.Sanity)
    /\ nTicks' = nTicks + 1
    /\ last' = [op |-> "Update", data |-> NoEvent, draw |-> 0,
                fired |-> analysisDue(now, lastObservationTime)]
    /\ UNCHANGED <<now, player, playerActions, fearResponses, insertedActions,
                   insertedResponses, nEvents, directorVars, worldVars, analyzer, eventVars, game>>

\* one call of ObserverSystem.AnalyzePlayerBehavior
ObserverAnalyzePlayerBehavior ==
    /\ nTicks < MaxTicks
    /\ BehaviorAnalysis
    /\ nTicks' = nTicks + 1
    /\ last' = [op |-> "ObserverSystem.AnalyzePlayerBehavior", data |-> NoEvent,
                draw |-> 0, fired |-> FALSE]
    /\ UNCHANGED <<now, player, playerActions, fearResponses, context,
                   lastObservationTime, recommendedScares, insertedActions,
                   insertedResponses, nEvents, directorVars, worldVars, analyzer, eventVars, game>>

-----------------------------------------------------------------------------
(* entity.Player *)

MaxSanity == 100000
MaxHealth == 100000
MoveSpeed == 3

\* entity.PlayerAction
PlayerActionMove == 0
PlayerActionInteract == 1

\* Player.TakeDamage
TakeDamage(health, amount) ==
    IF health - amount < 0 THEN 0 ELSE health - amount

\* mutant: the floor at 0 is left out
ReduceSanity_noFloor(sanity, amount) == sanity - amount

\* Player.ReduceSanity
ReduceSanity(sanity, amount) ==
    IF sanity - amount < 0 THEN 0 ELSE sanity - amount

\* Player.recordAction: the log keeps its most recent 1000 entries
recordAction(log, action) ==
    LET appended == Append(log, [Action |-> action, Timestamp |-> now])
    IN  IF Len(appended) > 1000 THEN LastN(appended, 1000) ELSE appended

-----------------------------------------------------------------------------
(* world.World as the Director sees it *)

\* the method set of *world.World: name -> <<parameter types, result types>>
WorldMethods ==
    [SpawnCreature |-> <<<<"string", "common.Vector2D">>, <<"*world.Entity">>>>,
     ModifyEnvironment |-> <<<<"common.Vector2D", "float64">>, <<>>>>]

\* the anonymous interfaces executeScareEvent asserts d.world against
SpawnerInterface ==
    <<<<"string", "common.Vector2D">>, <<"interface{}">>>>
ModifierInterface ==
    <<<<"common.Vector2D", "float64">>, <<>>>>

\* a Go type assertion to an interface succeeds only if the dynamic type has
\* the method with the identical signature
ImplementsSpawner == WorldMethods.SpawnCreature = SpawnerInterface
ImplementsModifier == WorldMethods.ModifyEnvironment = ModifierInterface

\* World.SpawnCreature
SpawnCreature(ents, creatureType, position) ==
    Append(ents, [ID |-> Len(ents) + 1, Type |-> creatureType, Position |-> position])

\* common.TileType
TileGrass == 0
TileForest == 1
TileWater == 5
TileCorrupted == 7

\* the size NewGame and resetGame give the world
WorldWidth == 256
WorldHeight == 256

\* the tiles the model follows: at (0, 0), where the Director's events lie,
\* within and beyond their radius, in the middle, nearer the rim there, and at
\* the far corner; and two coordinates that no tile has
TileList ==
    << Vector2D(0, 0), Vector2D(14, 0), Vector2D(15, 0), Vector2D(128, 128),
       Vector2D(149, 128), Vector2D(255, 255) >>
ProbedCoordinates ==
    {TileList[i] : i \in DOMAIN TileList} \cup {Vector2D(-1, 0), Vector2D(256, 255)}

\* the bounds test of ModifyEnvironment, negated
InsideWorld(c) == ~(c.X < 0 \/ c.Y < 0 \/ c.X >= WorldWidth \/ c.Y >= WorldHeight)

\* the tiles that exist, w.Tiles[y][x] with 0 <= x < Width and 0 <= y < Height
TileCoordinates == {c \in ProbedCoordinates : InsideWorld(c)}

\* w.Tiles[c.Y][c.X]; the followed tiles are held in the order of TileList
TileAt(ts, c) == ts[CHOOSE i \in DOMAIN TileList : TileList[i] = c]

\* the tile types generateTerrain left at the probed coordinates; every tile
\* starts with Corruption 0
Terrain(c) ==
    IF c.X < 100 THEN TileGrass ELSE IF c.X < 150 THEN TileForest ELSE TileWater

NewTiles == [i \in DOMAIN TileList |-> [Type |-> Terrain(TileList[i]), Corruption |-> 0]]

\* int(x) of a float64 given in thousandths: the fraction is dropped
truncate(x) == IF x < 0 THEN -((-x) \div 1000) ELSE x \div 1000

\* radius := 10.0 + intensity*20.0, in fiftieths: 500 + intensity is exact
modifyRadius(intensity) == 500 + intensity

\* the two for loops of ModifyEnvironment reach (x, y)
InLoopRange(c, position, intensity) ==
    LET radius == 20 * modifyRadius(intensity)
    IN  /\ truncate(position.Y * 1000 - radius) <= c.Y
        /\ c.Y <= truncate(position.Y * 1000 + radius)
        /\ truncate(position.X * 1000 - radius) <= c.X
        /\ c.X <= truncate(position.X * 1000 + radius)

\* distSq and radiusSq, in 1/2500
distSq(c, position) ==
    ((c.X - position.X) * (c.X - position.X)
       + (c.Y - position.Y) * (c.Y - position.Y)) * 2500
radiusSq(intensity) == modifyRadius(intensity) * modifyRadius(intensity)

\* the call reaches (x, y) in its loops, does not skip it, and writes its tile
Touches(c, position, intensity) ==
    /\ InLoopRange(c, position, intensity)
    /\ InsideWorld(c)
    /\ distSq(c, position) <= radiusSq(intensity)

\* the coordinates whose tile one call writes
TouchedCoordinates(position, intensity) ==
    {c \in ProbedCoordinates : Touches(c, position, intensity)}

\* mutant: the limit of 1.0 is left out
corrupt_noCap(tile, strength) ==
    LET raised == tile.Corruption + (strength * 3) \div 10
    IN  [Type |-> IF raised > 700 THEN TileCorrupted ELSE tile.Type,
         Corruption |-> raised]

\* tile.Corruption += strength * 0.3, limited to 1.0; above 0.7 the type changes
corrupt(tile, strength) ==
    LET raised == tile.Corruption + (strength * 3) \div 10
        capped == IF raised > 1000 THEN 1000 ELSE raised
    IN  [Type |-> IF capped > 700 THEN TileCorrupted ELSE tile.Type,
         Corruption |-> capped]

\* strength := (1.0 - distSq/radiusSq) * intensity; the quotient in thousandths,
\* by long division
strengthAt(c, position, intensity) ==
    LET scaled == distSq(c, position) * 100
        rSq == radiusSq(intensity)
        ratio == (scaled \div rSq) * 10 + ((scaled % rSq) * 10) \div rSq
    IN  ((1000 - ratio) * intensity) \div 1000

\* World.ModifyEnvironment
ModifyEnvironment(ts, position, intensity) ==
    [i \in DOMAIN ts |->
        IF Touches(TileList[i], position, intensity)
        THEN corrupt(ts[i], strengthAt(TileList[i], position, intensity))
        ELSE ts[i]]

\* World.Tiles: what NewWorld built, changed by the calls of ModifyEnvironment
\* made since, which are the only writers of a tile
RECURSIVE Tiles(_)
Tiles(calls) ==
    IF calls = <<>>
    THEN NewTiles
    ELSE ModifyEnvironment(Tiles(SubSeq(calls, 1, Len(calls) - 1)),
                           calls[Len(calls)].Position, calls[Len(calls)].Intensity)

-----------------------------------------------------------------------------
(* Director *)

\* NewDirector: mood and ReactivityToScares are set once and never written
mood == 300
ReactivityToScares == 500
InitialTension == 100

creatureTypes == <<"shadow", "spider", "phantom", "doppelganger", "wendigo", "faceless">>

\* common.VectorFromEntity: only a common.Vector2D converts, anything else is (0, 0)
VectorFromEntity(typeName, vec) ==
    IF typeName = "common.Vector2D" THEN vec ELSE Vector2D(0, 0)

\* draws of rand.Float64(), thousandths
ChanceDraws == {9, 10, 300, 400}
IntensityDraws == {0, 800}
\* (cos(angle), sin(angle)) * distance for distance in [10, 30)
SpawnOffsets == {Vector2D(10, 0), Vector2D(-20, 21)}
\* draws of rand.Intn(len(creatureTypes)), from 0
CreatureDraws == {0, 5}
\* draws of rand.Intn(5)
DurationDraws == {2}

\* mutant: the further 0.2 after 60 s is left out
baseChance_noLongBonus(tens, history, clock) ==
    (tens \div 10)
    + IF Len(history) > 0
      THEN IF clock - history[Len(history)].Timestamp > 30 THEN 100 ELSE 0
      ELSE 300

\* mutant: the never-fired bonus is added whether or not a scare has fired
baseChance_bonusKept(tens, history, clock) == (tens \div 10) + 300

\* the chance shouldCreateScareEvent compares the draw with
baseChance(tens, history, clock) ==
    (tens \div 10)
    + IF Len(history) > 0
      THEN LET timeSinceLast == clock - history[Len(history)].Timestamp
           IN  (IF timeSinceLast > 30 THEN 100 ELSE 0)
               + (IF timeSinceLast > 60 THEN 200 ELSE 0)
      ELSE 300

shouldCreateScareEvent(draw) == draw < baseChance(tension, scareHistory, now)

\* mutant: no limit on the intensity
intensityFor_noCap(m, reactivity, r) ==
    LET base == (m * (700000 + 300 * r)) \div 1000000
    IN  IF reactivity < 300 THEN (base * 3) \div 2 ELSE base

\* createScareEvent: the intensity, from d.mood, ReactivityToScares and the draw
intensityFor(m, reactivity, r) ==
    LET base == (m * (700000 + 300 * r)) \div 1000000
        raised == IF reactivity < 300 THEN (base * 3) \div 2 ELSE base
    IN  IF raised > 1000 THEN 1000 ELSE raised

eventIntensity(r) == intensityFor(mood, ReactivityToScares, r)

createScareEvent(eventType, r, duration, creature, offset) ==
    LET event == [Type |-> eventType,
                  Intensity |-> eventIntensity(r),
                  Position |-> VectorFromEntity("entity.Vector2D", player.Position),
                  Duration |-> 2 + duration,
                  CreatureType |-> "",
                  Timestamp |-> now]
    IN  IF eventType = EventCreatureAppearance
        THEN [event EXCEPT
                !.CreatureType = creatureTypes[creature + 1],
                !.Position = Vector2D(player.Position.X + offset.X,
                                      player.Position.Y + offset.Y)]
        ELSE event

\* mutant: only the latest event is kept
appendToHistory_latestOnly(history, event) == <<event>>

\* d.scareHistory = append(d.scareHistory, event)
appendToHistory(history, event) == Append(history, event)

executeScareEvent(event) ==
    /\ scareHistory' = appendToHistory(scareHistory, event)
    /\ entities' =
          IF event.Type = EventCreatureAppearance /\ ImplementsSpawner
          THEN SpawnCreature(entities, event.CreatureType, event.Position)
          ELSE entities
    /\ envCalls' =
          IF event.Type = EventEnvironmentChange /\ ImplementsModifier
          THEN Append(envCalls, [Position |-> event.Position,
                                 Intensity |-> event.Intensity])
          ELSE envCalls
    /\ player' = [player EXCEPT !.Sanity = ReduceSanity(@, event.Intensity * 5)]

\* mutant: a decision also resets the Observer's time since the last scare
AdjustWorld_resettingObserver ==
    /\ Len(scareHistory) < MaxScares
    /\ \E draw \in ChanceDraws :
          /\ IF shouldCreateScareEvent(draw)
             THEN \E eventType \in ScareEventTypes, r \in IntensityDraws,
                     duration \in DurationDraws :
                     executeScareEvent(createScareEvent(eventType, r, duration, 0,
                                                        Vector2D(10, 0)))
             ELSE UNCHANGED <<scareHistory, entities, envCalls, player>>
          /\ last' = [op |-> "AdjustWorld", data |-> NoEvent, draw |-> draw,
                      fired |-> shouldCreateScareEvent(draw)]
    /\ context' = [context EXCEPT !.TimeSinceLastScare = 0]
    /\ UNCHANGED <<now, playerActions, fearResponses, fearProfile, reactorProfile,
                   predictedActions, lastObservationTime, recommendedScares,
                   historyVars, tension, movementPreference, lastAnalysisTime,
                   analyzer, eventVars, game>>

\* AdjustWorld: modifyEnvironment and manageCreatures are empty
AdjustWorld ==
    /\ Len(scareHistory) < MaxScares
    /\ \E draw \in ChanceDraws :
          /\ IF shouldCreateScareEvent(draw)
             THEN \E eventType \in ScareEventTypes, r \in IntensityDraws,
                     duration \in DurationDraws :
                     IF eventType = EventCreatureAppearance
                     THEN \E creature \in CreatureDraws, offset \in SpawnOffsets :
                             executeScareEvent(createScareEvent(eventType, r, duration,
                                                                creature, offset))
                     ELSE executeScareEvent(createScareEvent(eventType, r, duration, 0,
                                                             Vector2D(0, 0)))
             ELSE UNCHANGED <<scareHistory, entities, envCalls, player>>
          /\ last' = [op |-> "AdjustWorld", data |-> NoEvent, draw |-> draw,
                      fired |-> shouldCreateScareEvent(draw)]
    /\ UNCHANGED <<now, observerVars, historyVars, tension, movementPreference,
                   lastAnalysisTime, analyzer, eventVars, game>>

\* mutant: the limit of 1.0 is left out
updateMoodAndTension_noCap(tens) == tens + 10

updateMoodAndTension(tens) ==
    IF tens + 10 > 1000 THEN 1000 ELSE tens + 10

\* Director.AnalyzePlayerBehavior; analyzeScareEffectiveness is empty
AnalyzePlayerBehavior ==
    LET recentLogs == SelectSeq(player.ActionLog,
                                LAMBDA log : log.Timestamp > lastAnalysisTime)
        moveCount == Cardinality({i \in 1..Len(recentLogs) :
                                     recentLogs[i].Action = PlayerActionMove})
    IN  /\ IF Len(player.ActionLog) = 0
           THEN UNCHANGED <<lastAnalysisTime, movementPreference, tension>>
           ELSE /\ lastAnalysisTime' = now
                /\ IF Len(recentLogs) = 0
                   THEN UNCHANGED <<movementPreference, tension>>
                   ELSE /\ movementPreference' =
                              (movementPreference * 8 * Len(recentLogs)
                                 + 2000 * moveCount) \div (10 * Len(recentLogs))
                        /\ tension' = updateMoodAndTension(tension)
        /\ last' = [op |-> "AnalyzePlayerBehavior", data |-> NoEvent, draw |-> 0,
                    fired |-> FALSE]
        /\ UNCHANGED <<now, player, observerVars, historyVars, scareHistory, worldVars,
                       analyzer, eventVars, game>>

-----------------------------------------------------------------------------
(* Analyzer *)
(* Speeds, rates, responses and weights are thousandths, positions and areas *)
(* whole units.  A Go map is a function on the keys it holds.  The heatmap   *)
(* and PreferredAreas, which no operation of the model reads, are left out.  *)

sectorSize == 5
\* the capacity of positionHistory
maxPositions == 1000

EmptyMap == [k \in {} |-> 0]

NewAnalyzer ==
    [detectedPatterns |-> <<>>,
     movementAnalysis |-> [AverageSpeed |-> 0, DirectionChanges |-> 0,
                           ExplorationArea |-> 0, PathRepetition |-> 0],
     interactionAnalysis |-> [InteractionRate |-> 0, ResponseToScareEvents |-> EmptyMap],
     scareHistory |-> <<>>,
     lastAnalysisTime |-> 0,
     positionHistory |-> <<>>,
     areaVisits |-> EmptyMap,
     sectorsExplored |-> {},
     scareResponses |-> EmptyMap]

\* m[key] = value
MapPut(m, key, value) ==
    [k \in DOMAIN m \cup {key} |-> IF k = key THEN value ELSE m[k]]

\* int(x / size) of Go: the conversion of a float64 truncates toward zero
truncatedQuotient(x, size) == IF x < 0 THEN -((-x) \div size) ELSE x \div size

\* the sector of a position: int(X / sectorSize), int(Y / sectorSize)
makeKey(position) ==
    <<truncatedQuotient(position.X, sectorSize),
      truncatedQuotient(position.Y, sectorSize)>>

recordPlayerPosition(a, position) ==
    LET appended == Append(a.positionHistory, position)
        sectorKey == makeKey(position)
    IN  [a EXCEPT
            !.positionHistory = IF Len(appended) > maxPositions
                                THEN LastN(appended, maxPositions)
                                ELSE appended,
            !.areaVisits = MapPut(@, sectorKey,
                                  IF sectorKey \in DOMAIN @ THEN @[sectorKey] + 1 ELSE 1),
            !.sectorsExplored = @ \cup {sectorKey}]

\* the player's Direction stays 0, so every displacement is along X:
\* sqrt(dx*dx + dy*dy) is |dx|, and atan2(dy, dx) is pi for dx < 0 and 0 otherwise
distance(p, q) == Abs(p.X - q.X) + Abs(p.Y - q.Y)
directionChanged(prev, curr, next) == (curr.X - prev.X < 0) # (next.X - curr.X < 0)

RECURSIVE SumOver(_, _)
SumOver(f, S) ==
    IF S = {} THEN 0
    ELSE LET k == CHOOSE x \in S : TRUE IN f[k] + SumOver(f, S \ {k})

\* the sum of f[lo] .. f[hi], by halves
RECURSIVE SumRange(_, _, _)
SumRange(f, lo, hi) ==
    IF lo > hi THEN 0
    ELSE IF lo = hi THEN f[lo]
    ELSE LET mid == (lo + hi) \div 2
         IN  SumRange(f, lo, mid) + SumRange(f, mid + 1, hi)

calculatePathRepetition(a) ==
    IF Cardinality(a.sectorsExplored) = 0
    THEN 0
    ELSE Max(0, (1000 * SumOver(a.areaVisits, DOMAIN a.areaVisits))
                   \div Cardinality(a.sectorsExplored) - 1000)

analyzeMovement(a) ==
    LET history == a.positionHistory
        n == Len(history)
        steps == [i \in 2..n |-> distance(history[i - 1], history[i])]
        changes == {i \in 3..n :
                       directionChanged(history[i - 2], history[i - 1], history[i])}
    IN  IF n < 2
        THEN a
        ELSE [a EXCEPT !.movementAnalysis =
                 [AverageSpeed |-> (1000 * SumRange(steps, 2, n)) \div (n - 1),
                  DirectionChanges |-> Cardinality(changes),
                  ExplorationArea |->
                      Cardinality(a.sectorsExplored) * sectorSize * sectorSize,
                  PathRepetition |-> calculatePathRepetition(a)]]

\* recordAction leaves InteractionType empty, so PreferredInteractions stays empty
analyzeInteractions(a, log) ==
    IF Len(log) = 0
    THEN a
    ELSE [a EXCEPT !.interactionAnalysis.InteractionRate =
             (1000 * Cardinality({i \in 1..Len(log) :
                                     log[i].Action = PlayerActionInteract}))
                \div Len(log)]

\* sum / count of float64 values, NaN if one of them is NaN
mean(values) ==
    IF \E i \in 1..Len(values) : IsNaN(values[i])
    THEN NaN
    ELSE SumOver(values, 1..Len(values)) \div Len(values)

\* what RecordScareResponse leaves in the Analyzer
RecordScareResponse(a, event, response) ==
    LET history == Append(a.scareHistory, event)
        responses == IF event.Type \in DOMAIN a.scareResponses
                     THEN Append(a.scareResponses[event.Type], response)
                     ELSE <<response>>
    IN  [a EXCEPT
            !.scareHistory = IF Len(history) > 50 THEN LastN(history, 50) ELSE history,
            !.scareResponses = MapPut(@, event.Type, responses),
            !.interactionAnalysis.ResponseToScareEvents =
                MapPut(@, event.Type, mean(responses))]

PlayerPattern(name, weight) == [Name |-> name, Weight |-> weight]

\* the sequence a conditional addPattern call contributes
When(condition, pattern) == IF condition THEN <<pattern>> ELSE <<>>

\* the addPattern calls of detectMovementPatterns, in order
detectMovementPatterns(m) ==
    When(m.ExplorationArea > 500 /\ m.PathRepetition < 2000,
         PlayerPattern("explorer", 800 - m.PathRepetition \div 10))
    \o When(m.AverageSpeed < 1500 /\ m.DirectionChanges > 30,
            PlayerPattern("cautious", 900 - m.AverageSpeed \div 3))
    \o When(m.AverageSpeed > 2000 /\ m.DirectionChanges < 15,
            PlayerPattern("determined", 700 + m.AverageSpeed \div 5))
    \o When(m.ExplorationArea < 200 /\ m.PathRepetition > 3000,
            PlayerPattern("indecisive", 600 + m.PathRepetition \div 5))

\* the addPattern calls of detectInteractionPatterns, in order
detectInteractionPatterns(ia) ==
    When(ia.InteractionRate > 300,
         PlayerPattern("interactive", 700 + ia.InteractionRate))
    \o When(ia.InteractionRate < 100,
            PlayerPattern("passive", 600 + (100 - ia.InteractionRate)))

\* the addPattern calls of detectFearResponsePatterns, in order
detectFearResponsePatterns(ia) ==
    LET responses == ia.ResponseToScareEvents
        kinds == DOMAIN responses
        avgResponse == IF \E k \in kinds : IsNaN(responses[k])
                       THEN NaN
                       ELSE SumOver(responses, kinds) \div Cardinality(kinds)
        response(k) == IF k \in kinds THEN responses[k] ELSE NaN
    IN  (IF kinds # {}
         THEN When(fgt(300, avgResponse), PlayerPattern("fearless", 800 - avgResponse))
              \o When(fgt(avgResponse, 700),
                      PlayerPattern("easily_scared", 700 + avgResponse))
         ELSE <<>>)
        \o When(fgt(response(EventSuddenNoise), 800),
                PlayerPattern("startles_easily", 700 + response(EventSuddenNoise)))
        \o When(fgt(response(EventCreatureAppearance), 800),
                PlayerPattern("monster_phobia",
                              700 + response(EventCreatureAppearance)))

\* every addPattern call of one detectPatterns run, in order
detectionCalls(a) ==
    detectMovementPatterns(a.movementAnalysis)
    \o detectInteractionPatterns(a.interactionAnalysis)
    \o detectFearResponsePatterns(a.interactionAnalysis)

addPattern(patterns, pattern) ==
    IF \E i \in 1..Len(patterns) : patterns[i].Name = pattern.Name
    THEN LET i == CHOOSE j \in 1..Len(patterns) :
                     /\ patterns[j].Name = pattern.Name
                     /\ \A h \in 1..(j - 1) : patterns[h].Name # pattern.Name
         IN  [patterns EXCEPT ![i].Weight = (@ + pattern.Weight) \div 2]
    ELSE Append(patterns, pattern)

RECURSIVE addPatterns(_, _)
addPatterns(patterns, calls) ==
    IF calls = <<>> THEN patterns
    ELSE addPatterns(addPattern(patterns, Head(calls)), Tail(calls))

\* mutant: the list is left in the order of detection
sortByWeight_unsorted(patterns) == {patterns}

\* the orders sort.Slice may leave: no pattern directly before one of greater
\* weight, equal weights in any order
sortByWeight(patterns) ==
    LET n == Len(patterns)
    IN  {[i \in 1..n |-> patterns[perm[i]]] :
            perm \in {f \in [1..n -> 1..n] :
                         /\ \A i, j \in 1..n : i # j => f[i] # f[j]
                         /\ \A i \in 1..(n - 1) :
                               ~fgt(patterns[f[i + 1]].Weight, patterns[f[i]].Weight)}}

\* the lists detectPatterns may leave: the previous list is cleared first
detectPatterns(a) == sortByWeight(addPatterns(<<>>, detectionCalls(a)))

\* the outcomes of AnalyzePlayer at a position, with an action log, at a time
AnalyzePlayerOutcomes(a, position, log, clock) ==
    LET analysed == analyzeInteractions(
                       analyzeMovement(recordPlayerPosition(a, position)), log)
    IN  {[analysed EXCEPT !.detectedPatterns = sorted, !.lastAnalysisTime = clock] :
            sorted \in detectPatterns(analysed)}

\* GetTopPatterns for a count that is not negative
GetTopPatterns(patterns, count) ==
    SubSeq(patterns, 1, IF count > Len(patterns) THEN Len(patterns) ELSE count)

AnalyzerFrame(op) ==
    /\ last' = [op |-> op, data |-> NoEvent, draw |-> 0, fired |-> FALSE]
    /\ UNCHANGED <<now, observerVars, insertedActions, insertedResponses,
                   analysedResponses, directorVars, worldVars, eventVars, game>>

\* one call of Analyzer.AnalyzePlayer
AnalyzePlayer ==
    /\ nTicks < MaxTicks
    /\ analyzer' \in AnalyzePlayerOutcomes(analyzer, player.Position,
                                           player.ActionLog, now)
    /\ nTicks' = nTicks + 1
    /\ UNCHANGED <<player, nEvents>>
    /\ AnalyzerFrame("AnalyzePlayer")

\* draws of the response a scare got: weak, strong, not a number
ResponseInputs == {100, 900, NaN}

\* one call of Analyzer.RecordScareResponse
ScareResponseRecorded ==
    /\ nEvents < MaxEvents
    /\ \E type \in {EventSuddenNoise, EventCreatureAppearance},
          response \in ResponseInputs :
          analyzer' = RecordScareResponse(analyzer, [Type |-> type], response)
    /\ nEvents' = nEvents + 1
    /\ UNCHANGED <<player, nTicks>>
    /\ AnalyzerFrame("RecordScareResponse")

\* Player.MoveForward or Player.MoveBackward between two analyses
PlayerMoves ==
    /\ nEvents < MaxEvents
    /\ \E step \in {MoveSpeed, -MoveSpeed} :
          player' = [player EXCEPT
                        !.Position = Vector2D(@.X + step, @.Y),
                        !.ActionLog = recordAction(@, PlayerActionMove)]
    /\ nEvents' = nEvents + 1
    /\ UNCHANGED <<analyzer, eventVars, game, nTicks>>
    /\ AnalyzerFrame("Move")

\* Player.Interact between two analyses
PlayerInteracts ==
    /\ nEvents < MaxEvents
    /\ player' = [player EXCEPT !.ActionLog = recordAction(@, PlayerActionInteract)]
    /\ nEvents' = nEvents + 1
    /\ UNCHANGED <<analyzer, eventVars, game, nTicks>>
    /\ AnalyzerFrame("Interact")

-----------------------------------------------------------------------------
(* The game around the two components *)

PlayerFrame(op) ==
    /\ last' = [op |-> op, data |-> NoEvent, draw |-> 0, fired |-> FALSE]
    /\ UNCHANGED <<now, observerVars, historyVars, directorVars, worldVars, analyzer, eventVars, game>>

\* Player.MoveForward with Direction 0
MoveForward ==
    /\ Len(player.ActionLog) < MaxLog
    /\ player' = [player EXCEPT
                    !.Position = Vector2D(@.X + MoveSpeed, @.Y),
                    !.ActionLog = recordAction(@, PlayerActionMove)]
    /\ PlayerFrame("MoveForward")

\* Player.Interact
Interact ==
    /\ Len(player.ActionLog) < MaxLog
    /\ player' = [player EXCEPT !.ActionLog = recordAction(@, PlayerActionInteract)]
    /\ PlayerFrame("Interact")

\* a "faceless" creature in attack range: AttackDamage in [5, 15), SanityDamage
\* in [15, 25)
FacelessAttackDamage == 5000
FacelessSanityDamage == 24800

\* Creature.Update, state "attack", the frame of the hit
CreatureAttack ==
    /\ player.Sanity > 0
    /\ player' = [player EXCEPT
                    !.Health = TakeDamage(@, FacelessAttackDamage),
                    !.Sanity = ReduceSanity(@, FacelessSanityDamage)]
    /\ PlayerFrame("CreatureAttack")

\* the same hit, among the inputs of a behaviour with a bounded number of them
AttackedByFaceless ==
    /\ nEvents < MaxEvents
    /\ nEvents' = nEvents + 1
    /\ player' = [player EXCEPT
                    !.Health = TakeDamage(@, FacelessAttackDamage),
                    !.Sanity = ReduceSanity(@, FacelessSanityDamage)]
    /\ last' = [op |-> "AttackedByFaceless", data |-> NoEvent, draw |-> 0,
                fired |-> FALSE]
    /\ UNCHANGED <<now, observerVars, insertedActions, insertedResponses, nTicks,
                   analysedResponses, directorVars, worldVars, analyzer, eventVars, game>>

\* item "medical_pills": effect "sanity" of Value 20 on the user
PillsValue == 20000

\* Item.applyEffect, case "sanity"
applySanityEffect(sanity, value) ==
    IF sanity + value > MaxSanity THEN MaxSanity ELSE sanity + value

\* Item.Use of the pills
TakePills ==
    /\ nEvents < MaxEvents
    /\ nEvents' = nEvents + 1
    /\ player' = [player EXCEPT !.Sanity = applySanityEffect(@, PillsValue)]
    /\ last' = [op |-> "TakePills", data |-> NoEvent, draw |-> 0, fired |-> FALSE]
    /\ UNCHANGED <<now, observerVars, insertedActions, insertedResponses, nTicks,
                   analysedResponses, directorVars, worldVars, analyzer, eventVars, game>>

\* the wall clock moves on by dt seconds
AdvanceClock(dt, limit) ==
    /\ now + dt <= limit
    /\ now' = now + dt
    /\ last' = [op |-> "clock", data |-> NoEvent, draw |-> 0, fired |-> FALSE]
    /\ UNCHANGED <<player, observerVars, historyVars, directorVars, worldVars,
                   analyzer, eventVars, game>>

\* between two Director ticks
DirectorClock == \E dt \in {29, 32} : AdvanceClock(dt, MaxTime)

\* between two Observer ticks
ObserverClock == \E dt \in {4, 5} : AdvanceClock(dt, MaxObserverTime)

\* between two updates of an Observer followed through its passes
UpdateClock == \E dt \in {4, 5} : AdvanceClock(dt, MaxUpdateTime)

-----------------------------------------------------------------------------
(* event.EventManager *)
(* Producers call Trigger and one consumer calls ProcessEvents, each on a    *)
(* goroutine of its own; a step is what one goroutine does between two       *)
(* operations on the mutex.  An event is its type, the name of a custom      *)
(* event and a number that tells the events apart; the other payload fields  *)
(* play no part in queueing.                                                 *)

EventCustom == 13

Producers == {"input", "combat"}

\* the goroutines that may be inside Trigger: the producers, and the consumer
\* when a callback it is calling triggers an event ("dispatcher")
Callers == Producers \cup {"dispatcher"}

\* callbacks that trigger an event on the manager they are registered with,
\* and the event they trigger
ReentrantCallbacks == {"relay.onDamaged"}
RelayedEvent == [Type |-> EventCustom, Name |-> "inventory_updated"]

\* what Initialize of the Observer and of the interface register
RegisteredListeners == [t \in {EventPlayerDamaged} |-> <<"observer.recordDamage", "ui.onDamaged">>]
RegisteredCustomListeners == [n \in {"inventory_updated"} |-> <<"ui.onInventory">>]

\* the events the producers trigger: a damage event and a custom event
TriggeredEvents ==
    {[Type |-> EventPlayerDamaged, Name |-> ""],
     [Type |-> EventCustom, Name |-> "inventory_updated"]}

\* sync.RWMutex
Unlocked == [writer |-> FALSE, readers |-> 0]
canLock(mutex) == ~mutex.writer /\ mutex.readers = 0
canRLock(mutex) == ~mutex.writer

\* NewEventManager, then the AddListener and AddCustomListener calls
NewEventManager ==
    [listeners |-> RegisteredListeners,
     customListeners |-> RegisteredCustomListeners,
     queuedEvents |-> <<>>,
     mutex |-> Unlocked]

\* dispatchEvent: the callbacks it calls, in order
dispatchEvent(em, data) ==
    (IF data.Type \in DOMAIN em.listeners THEN em.listeners[data.Type] ELSE <<>>)
    \o (IF data.Type = EventCustom /\ data.Name \in DOMAIN em.customListeners
        THEN em.customListeners[data.Name] ELSE <<>>)

\* mutant: the queue keeps the events of the batch
resetQueue_kept(queue) == queue

\* em.queuedEvents = []EventData{}
resetQueue(queue) == <<>>

\* the address of a local variable: every variable has its own
AddressOf_(variable) == variable

\* the loop of RemoveListener and RemoveCustomListener: &cb == &callback
\* compares the address of the loop variable with that of the parameter
removeCallback(listeners, callback) ==
    LET found == {i \in 1..Len(listeners) : AddressOf_("cb") = AddressOf_("callback")}
    IN  IF found = {} THEN listeners
        ELSE LET i == CHOOSE j \in found : \A k \in found : j <= k
             IN  SubSeq(listeners, 1, i - 1) \o SubSeq(listeners, i + 1, Len(listeners))

EventFrame ==
    UNCHANGED <<now, player, observerVars, directorVars, worldVars, analyzer,
                game, historyVars, last>>

\* Trigger: the event is built
TriggerCall(p) ==
    /\ goroutines.pc[p] = "idle"
    /\ eventLog.triggered < MaxTriggered
    /\ \E e \in TriggeredEvents :
          goroutines' = [goroutines EXCEPT
                           !.pc[p] = "TriggerWithData",
                           !.data[p] = [Type |-> e.Type, Name |-> e.Name,
                                        id |-> eventLog.triggered + 1]]
    /\ eventLog' = [eventLog EXCEPT !.triggered = @ + 1]
    /\ UNCHANGED eventManager
    /\ EventFrame

\* TriggerWithData: em.mutex.Lock()
TriggerLock(p) ==
    /\ goroutines.pc[p] = "TriggerWithData"
    /\ canLock(eventManager.mutex)
    /\ eventManager' = [eventManager EXCEPT !.mutex.writer = TRUE]
    /\ goroutines' = [goroutines EXCEPT !.pc[p] = "append"]
    /\ UNCHANGED eventLog
    /\ EventFrame

\* TriggerWithData: the append and em.mutex.Unlock()
TriggerAppend(p) ==
    /\ goroutines.pc[p] = "append"
    /\ eventManager' = [eventManager EXCEPT
                           !.queuedEvents = Append(@, goroutines.data[p]),
                           !.mutex.writer = FALSE]
    /\ goroutines' = [goroutines EXCEPT !.pc[p] = "idle"]
    /\ eventLog' = [eventLog EXCEPT
                       !.enqueued = Append(@, [id |-> goroutines.data[p].id,
                                               event |-> goroutines.data[p],
                                               batches |-> eventLog.batches,
                                               draining |-> goroutines.consumer = "loop"])]
    /\ EventFrame

\* ProcessEvents: em.mutex.Lock()
ProcessLock ==
    /\ goroutines.consumer = "idle"
    /\ eventLog.batches < MaxDrains
    /\ canLock(eventManager.mutex)
    /\ eventManager' = [eventManager EXCEPT !.mutex.writer = TRUE]
    /\ goroutines' = [goroutines EXCEPT !.consumer = "take"]
    /\ UNCHANGED eventLog
    /\ EventFrame

\* ProcessEvents: the batch is taken, the queue reset, em.mutex.Unlock()
ProcessTake ==
    /\ goroutines.consumer = "take"
    /\ eventManager' = [eventManager EXCEPT
                           !.queuedEvents = resetQueue(@),
                           !.mutex.writer = FALSE]
    /\ goroutines' = [goroutines EXCEPT
                         !.consumer = "loop",
                         !.events = eventManager.queuedEvents,
                         !.i = 1]
    /\ eventLog' = [eventLog EXCEPT !.batches = @ + 1]
    /\ EventFrame

\* dispatchEvent: em.mutex.RLock()
DispatchRLock ==
    /\ goroutines.consumer = "loop"
    /\ goroutines.i <= Len(goroutines.events)
    /\ canRLock(eventManager.mutex)
    /\ eventManager' = [eventManager EXCEPT !.mutex.readers = @ + 1]
    /\ goroutines' = [goroutines EXCEPT !.consumer = "dispatch"]
    /\ UNCHANGED eventLog
    /\ EventFrame

\* dispatchEvent: the callbacks are called from the k-th on, up to the end and
\* em.mutex.RUnlock(), or up to a callback that calls Trigger itself: that call
\* runs on the consumer's goroutine, inside dispatchEvent
DispatchCallbacks ==
    /\ goroutines.consumer = "dispatch"
    /\ goroutines.pc["dispatcher"] = "idle"
    /\ LET data == goroutines.events[goroutines.i]
           callbacks == dispatchEvent(eventManager, data)
           calling == {j \in goroutines.k..Len(callbacks) :
                          callbacks[j] \in ReentrantCallbacks}
           upTo == IF calling = {} THEN Len(callbacks)
                   ELSE CHOOSE j \in calling : \A h \in calling : j <= h
           called == [j \in 1..(upTo - goroutines.k + 1) |->
                        [id |-> data.id,
                         callback |-> callbacks[goroutines.k + j - 1],
                         batch |-> eventLog.batches]]
       IN  IF calling = {}
           THEN /\ eventLog' = [eventLog EXCEPT !.delivered = @ \o called]
                /\ eventManager' = [eventManager EXCEPT !.mutex.readers = @ - 1]
                /\ goroutines' = [goroutines EXCEPT
                                     !.consumer = "loop", !.i = @ + 1, !.k = 1]
           ELSE /\ eventLog' = [eventLog EXCEPT
                                   !.delivered = @ \o called,
                                   !.triggered = @ + 1]
                /\ goroutines' = [goroutines EXCEPT
                                     !.k = upTo + 1,
                                     !.pc["dispatcher"] = "TriggerWithData",
                                     !.data["dispatcher"] =
                                         [Type |-> RelayedEvent.Type,
                                          Name |-> RelayedEvent.Name,
                                          id |-> eventLog.triggered + 1]]
                /\ UNCHANGED eventManager
    /\ EventFrame

\* ProcessEvents returns
ProcessReturn ==
    /\ goroutines.consumer = "loop"
    /\ goroutines.i > Len(goroutines.events)
    /\ goroutines' = [goroutines EXCEPT !.consumer = "idle", !.events = <<>>, !.i = 1]
    /\ UNCHANGED <<eventManager, eventLog>>
    /\ EventFrame

\* RemoveListener, called between two ProcessEvents with a callback that was
\* added for the type
RemoveListener ==
    /\ goroutines.consumer = "idle"
    /\ canLock(eventManager.mutex)
    /\ eventLog.removed = {}
    /\ \E eventType \in DOMAIN eventManager.listeners :
          \E k \in 1..Len(eventManager.listeners[eventType]) :
             LET callback == eventManager.listeners[eventType][k]
             IN  /\ eventManager' = [eventManager EXCEPT
                                        !.listeners[eventType] = removeCallback(@, callback)]
                 /\ eventLog' = [eventLog EXCEPT
                                    !.removed = @ \cup {[callback |-> callback,
                                                         batches |-> eventLog.batches]}]
    /\ UNCHANGED goroutines
    /\ EventFrame

\* RemoveCustomListener, likewise
RemoveCustomListener ==
    /\ goroutines.consumer = "idle"
    /\ canLock(eventManager.mutex)
    /\ eventLog.removed = {}
    /\ \E eventName \in DOMAIN eventManager.customListeners :
          \E k \in 1..Len(eventManager.customListeners[eventName]) :
             LET callback == eventManager.customListeners[eventName][k]
             IN  /\ eventManager' = [eventManager EXCEPT
                                        !.customListeners[eventName] =
                                            removeCallback(@, callback)]
                 /\ eventLog' = [eventLog EXCEPT
                                    !.removed = @ \cup {[callback |-> callback,
                                                         batches |-> eventLog.batches]}]
    /\ UNCHANGED goroutines
    /\ EventFrame

-----------------------------------------------------------------------------
(* Construction *)

\* entity.NewPlayer
NewPlayer ==
    [Sanity |-> MaxSanity, Health |-> MaxHealth, Position |-> Vector2D(128, 128),
     ActionLog |-> <<>>]

\* NewObserverSystem and Initialize
InitObserver ==
    /\ playerActions = <<>>
    /\ fearResponses = [k \in FearTypes |-> <<>>]
    /\ fearProfile = [k \in FearTypes |-> 500]
    /\ reactorProfile = [k \in ReactorTypes |-> 500]
    /\ predictedActions = [a \in ActionTypes |-> 0]
    /\ lastObservationTime = now
    /\ context = [TimeSinceLastScare |-> 60, CurrentSanity |-> player.Sanity,
                  RecentSanityLoss |-> 0]
    /\ recommendedScares = <<>>

\* NewDirector
InitDirector ==
    /\ tension = InitialTension
    /\ movementPreference = 500
    /\ lastAnalysisTime = now
    /\ scareHistory = <<>>

\* world.NewWorld: no entities
InitWorld ==
    /\ entities = <<>>
    /\ envCalls = <<>>

\* GameState
StateMainMenu == 0
StatePlaying == 1
StatePaused == 2
StateGameOver == 3

\* NewGame
NewGame == [state |-> StateMainMenu, frameCount |-> 0]

InitGame == game = NewGame

InitAnalyzer == analyzer = NewAnalyzer

\* NewEventManager and the registrations; no goroutine is inside a call
InitEvents ==
    /\ eventManager = NewEventManager
    /\ goroutines = [pc |-> [p \in Callers |-> "idle"],
                     data |-> [p \in Callers |->
                                 [Type |-> EventPlayerMoved, Name |-> "", id |-> 0]],
                     consumer |-> "idle", events |-> <<>>, i |-> 1, k |-> 1]
    /\ eventLog = [triggered |-> 0, enqueued |-> <<>>, delivered |-> <<>>,
                   batches |-> 0, removed |-> {}]

\* the same manager after one more AddListener call, for a callback that
\* passes the damage on as a custom event
InitRelay ==
    /\ eventManager =
          [NewEventManager EXCEPT
              !.listeners[EventPlayerDamaged] = Append(@, "relay.onDamaged")]
    /\ goroutines = [pc |-> [p \in Callers |-> "idle"],
                     data |-> [p \in Callers |->
                                 [Type |-> EventPlayerMoved, Name |-> "", id |-> 0]],
                     consumer |-> "idle", events |-> <<>>, i |-> 1, k |-> 1]
    /\ eventLog = [triggered |-> 0, enqueued |-> <<>>, delivered |-> <<>>,
                   batches |-> 0, removed |-> {}]

InitHistory ==
    /\ insertedActions = <<>>
    /\ insertedResponses = [k \in FearTypes |-> <<>>]
    /\ nEvents = 0
    /\ nTicks = 0
    /\ analysedResponses = [k \in FearTypes |-> 0]
    /\ last = [op |-> "new", data |-> NoEvent, draw |-> 0, fired |-> FALSE]

Init ==
    /\ now = 0
    /\ player = NewPlayer
    /\ InitObserver
    /\ InitDirector
    /\ InitWorld
    /\ InitGame
    /\ InitAnalyzer
    /\ InitEvents
    /\ InitHistory

\* a new game whose event manager holds the relaying callback
InitReentrant ==
    /\ now = 0
    /\ player = NewPlayer
    /\ InitObserver
    /\ InitDirector
    /\ InitWorld
    /\ InitGame
    /\ InitAnalyzer
    /\ InitRelay
    /\ InitHistory

\* An Observer that has been running: maxActions - PreloadGap movement events
\* (walking and running in turn, no oldPosition) and, for each fear-kind an
\* event can produce, maxResponses - PreloadGap scare and sanity events have
\* been handled since construction, and no analysis pass has run yet.
LongRunActions ==
    [i \in 1..(maxActions - PreloadGap) |->
        PlayerAction(IF i % 2 = 0 THEN ActionRun ELSE ActionMove,
                     Vector2D(i % 7, i % 3), Vector2D(i % 7, i % 3), Nil, 0)]

RecordedFearTypes == {FearCreatures, FearSuddenNoises, FearIsolation, FearUnknown}

LongRunResponses ==
    [k \in FearTypes |->
        IF k \in RecordedFearTypes
        THEN [i \in 1..(maxResponses - PreloadGap) |->
                 FearResponse(k, 100 * (i % 10), 0)]
        ELSE <<>>]

InitLongRun ==
    /\ now = 0
    /\ player = NewPlayer
    /\ playerActions = LongRunActions
    /\ fearResponses = LongRunResponses
    /\ fearProfile = [k \in FearTypes |-> 500]
    /\ reactorProfile = [k \in ReactorTypes |-> 500]
    /\ predictedActions = [a \in ActionTypes |-> 0]
    /\ lastObservationTime = now
    /\ context = [TimeSinceLastScare |-> 0, CurrentSanity |-> player.Sanity,
                  RecentSanityLoss |-> 0]
    /\ recommendedScares = <<>>
    /\ InitDirector
    /\ InitWorld
    /\ InitGame
    /\ InitAnalyzer
    /\ InitEvents
    /\ insertedActions = LongRunActions
    /\ insertedResponses = LongRunResponses
    /\ nEvents = MaxEvents - LongRunEvents
    /\ nTicks = 0
    /\ analysedResponses = [k \in FearTypes |-> 0]
    /\ last = [op |-> "new", data |-> NoEvent, draw |-> 0, fired |-> FALSE]

\* An Observer that has handled eight or nine action events since Initialize
\* and has not analysed yet: the player only walked, or walked, ran, froze under
\* damage and interacted
WalkedOnly(n) ==
    [i \in 1..n |-> PlayerAction(ActionMove, Vector2D(i, 0), Vector2D(1, 0), Nil, 0)]

MixedActions ==
    [i \in 1..9 |->
        PlayerAction(<<ActionRun, ActionRun, ActionRun, ActionFreeze, ActionFreeze,
                       ActionInteract, ActionInteract, ActionMove, ActionMove>>[i],
                     Vector2D(i, 0), Vector2D(0, 0), Nil, 0)]

\* An Observer that has just handled three scare-triggered events, of
\* intensity 0.9, 0.8 and 0.7, right after Initialize.
ScaredResponses ==
    [k \in FearTypes |->
        CASE k = FearCreatures -> <<FearResponse(FearCreatures, 900, 0)>>
          [] k = FearSuddenNoises -> <<FearResponse(FearSuddenNoises, 800, 0)>>
          [] k = FearIsolation -> <<FearResponse(FearIsolation, 700, 0)>>
          [] OTHER -> <<>>]

ScaredObserver(inputs) ==
    /\ now = 0
    /\ player = NewPlayer
    /\ playerActions = <<>>
    /\ insertedActions = <<>>
    /\ fearResponses = ScaredResponses
    /\ insertedResponses = ScaredResponses
    /\ fearProfile = [k \in FearTypes |-> 500]
    /\ reactorProfile = [k \in ReactorTypes |-> 500]
    /\ predictedActions = [a \in ActionTypes |-> 0]
    /\ lastObservationTime = now
    /\ context = [TimeSinceLastScare |-> 0, CurrentSanity |-> player.Sanity,
                  RecentSanityLoss |-> 0]
    /\ recommendedScares = <<>>
    /\ InitDirector
    /\ InitWorld
    /\ InitGame
    /\ InitAnalyzer
    /\ InitEvents
    /\ nEvents = MaxEvents - inputs
    /\ nTicks = 0
    /\ analysedResponses = [k \in FearTypes |-> 0]
    /\ last = [op |-> "new", data |-> NoEvent, draw |-> 0, fired |-> FALSE]

\* followed through its passes with few inputs, through its context updates
\* with more
InitUpdate == ScaredObserver(UpdateEvents)
InitContext == ScaredObserver(MaxEvents)

ReactorHistories == {WalkedOnly(8), WalkedOnly(9), MixedActions}

InitReactor ==
    /\ now = 0
    /\ player = NewPlayer
    /\ playerActions \in ReactorHistories
    /\ insertedActions = playerActions
    /\ fearResponses = [k \in FearTypes |-> <<>>]
    /\ insertedResponses = [k \in FearTypes |-> <<>>]
    /\ fearProfile = [k \in FearTypes |-> 500]
    /\ reactorProfile = [k \in ReactorTypes |-> 500]
    /\ predictedActions = [a \in ActionTypes |-> 0]
    /\ lastObservationTime = now
    /\ context = [TimeSinceLastScare |-> 60, CurrentSanity |-> player.Sanity,
                  RecentSanityLoss |-> 0]
    /\ recommendedScares = <<>>
    /\ InitDirector
    /\ InitWorld
    /\ InitGame
    /\ InitAnalyzer
    /\ InitEvents
    /\ nEvents = MaxEvents - ReactorEvents
    /\ nTicks = 0
    /\ analysedResponses = [k \in FearTypes |-> 0]
    /\ last = [op |-> "new", data |-> NoEvent, draw |-> 0, fired |-> FALSE]

\* An Analyzer that has been running: AnalyzePlayer was called at each of the
\* positions in turn.  The calls before the last have left the positions and
\* the visits of their sectors; the last call computes everything else anew
\* (the interaction rate of a log of moves is 0 at every length).
Visited(positions) ==
    LET keys == {makeKey(positions[i]) : i \in 1..Len(positions)}
    IN  [NewAnalyzer EXCEPT
            !.positionHistory = positions,
            !.areaVisits = [k \in keys |->
                               Cardinality({i \in 1..Len(positions) :
                                               makeKey(positions[i]) = k})],
            !.sectorsExplored = keys]

AnalyzerAfter(positions, log) ==
    CHOOSE next \in AnalyzePlayerOutcomes(
                        Visited(SubSeq(positions, 1, Len(positions) - 1)),
                        positions[Len(positions)], log, 0) : TRUE

MovesLog(n) == [i \in 1..n |-> [Action |-> PlayerActionMove, Timestamp |-> 0]]

\* the player and the Analyzer at the start: a new game; the player stood
\* still through four analyses; the player went on by two steps before each
\* of twenty-one analyses; the player took four steps and interacted once
\* before the first analysis
StoodStill == [i \in 1..4 |-> Vector2D(128, 128)]
WentOn == [i \in 1..21 |-> Vector2D(128 + 2 * MoveSpeed * (i - 1), 128)]

PatternStarts ==
    {[player |-> NewPlayer, analyzer |-> NewAnalyzer],
     [player |-> NewPlayer, analyzer |-> AnalyzerAfter(StoodStill, <<>>)],
     [player |-> [NewPlayer EXCEPT !.Position = WentOn[21], !.ActionLog = MovesLog(40)],
      analyzer |-> AnalyzerAfter(WentOn, MovesLog(40))],
     [player |-> [NewPlayer EXCEPT
                     !.Position = Vector2D(128 + 4 * MoveSpeed, 128),
                     !.ActionLog = Append(MovesLog(4),
                                          [Action |-> PlayerActionInteract,
                                           Timestamp |-> 0])],
      analyzer |-> NewAnalyzer]}

InitPatterns ==
    /\ now = 0
    /\ \E start \in PatternStarts :
          /\ player = start.player
          /\ analyzer = start.analyzer
    /\ InitEvents
    /\ InitObserver
    /\ InitDirector
    /\ entities = <<>>
    /\ envCalls = <<>>
    /\ InitGame
    /\ insertedActions = <<>>
    /\ insertedResponses = [k \in FearTypes |-> <<>>]
    /\ nEvents = MaxEvents - PatternEvents
    /\ nTicks = 0
    /\ analysedResponses = [k \in FearTypes |-> 0]
    /\ last = [op |-> "new", data |-> NoEvent, draw |-> 0, fired |-> FALSE]

\* An Analyzer that has been running while the player went to and fro next to
\* the western edge of the world: the position history is empty, or holds
\* maxPositions - 1 positions, and the player stands two units from the edge.
ToAndFro == [i \in 1..(maxPositions - 1) |->
                Vector2D(IF i % 2 = 1 THEN 2 ELSE 2 + MoveSpeed, 128)]

PositionStarts ==
    {[player |-> [NewPlayer EXCEPT !.Position = Vector2D(2, 128),
                                   !.ActionLog = MovesLog(42)],
      analyzer |-> NewAnalyzer],
     [player |-> [NewPlayer EXCEPT !.Position = Vector2D(2, 128),
                                   !.ActionLog = MovesLog(42)],
      analyzer |-> AnalyzerAfter(ToAndFro, MovesLog(42))]}

InitPositions ==
    /\ now = 0
    /\ \E start \in PositionStarts :
          /\ player = start.player
          /\ analyzer = start.analyzer
    /\ InitEvents
    /\ InitObserver
    /\ InitDirector
    /\ InitWorld
    /\ InitGame
    /\ InitHistory

\* A Director that has been running.  Time 0 is the moment of its last analysis:
\* n analysed interactions have raised the tension by n * 0.01 and, from n = 40
\* on, brought MovementPreference = 0.5 * 0.8^n below half a thousandth; the
\* history is empty or holds one whisper fired at time 0.
DecisionTensions == {100, 500, 1000}
DecisionTimes == {0, 29, 30, 31, 60, 61}

FiredWhisper ==
    [Type |-> EventWhisper, Intensity |-> eventIntensity(0),
     Position |-> Vector2D(0, 0), Duration |-> 4, CreatureType |-> "",
     Timestamp |-> 0]

InitDecision ==
    /\ now \in DecisionTimes
    /\ tension \in DecisionTensions
    /\ scareHistory \in {<<>>, <<FiredWhisper>>}
    /\ LET n == (tension - InitialTension) \div 10
       IN  /\ player =
                 [Sanity |-> IF scareHistory = <<>>
                             THEN MaxSanity
                             ELSE ReduceSanity(MaxSanity, FiredWhisper.Intensity * 5),
                  Health |-> MaxHealth,
                  Position |-> Vector2D(128, 128),
                  ActionLog |-> [i \in 1..n |->
                                    [Action |-> PlayerActionInteract,
                                     Timestamp |-> 0]]]
           /\ movementPreference = IF n = 0 THEN 500 ELSE 0
    /\ lastAnalysisTime = 0
    /\ InitObserver
    /\ InitWorld
    /\ InitGame
    /\ InitAnalyzer
    /\ InitEvents
    /\ InitHistory

\* The same Director at the moment of that analysis, with all of the scares of
\* a behaviour but the last one fired as whispers at that moment; the player
\* acts TensionEvents times from here.
InitTension ==
    /\ now = 0
    /\ tension \in DecisionTensions
    /\ scareHistory = [i \in 1..(MaxScares - 1) |-> FiredWhisper]
    /\ LET n == (tension - InitialTension) \div 10
       IN  /\ player =
                 [Sanity |-> MaxSanity - (MaxScares - 1) * FiredWhisper.Intensity * 5,
                  Health |-> MaxHealth,
                  Position |-> Vector2D(128, 128),
                  ActionLog |-> [i \in 1..n |->
                                    [Action |-> PlayerActionInteract,
                                     Timestamp |-> 0]]]
           /\ movementPreference = IF n = 0 THEN 500 ELSE 0
    /\ lastAnalysisTime = 0
    /\ InitObserver
    /\ InitWorld
    /\ InitGame
    /\ InitAnalyzer
    /\ InitEvents
    /\ insertedActions = <<>>
    /\ insertedResponses = [k \in FearTypes |-> <<>>]
    /\ nEvents = MaxEvents - TensionEvents
    /\ nTicks = 0
    /\ analysedResponses = [k \in FearTypes |-> 0]
    /\ last = [op |-> "new", data |-> NoEvent, draw |-> 0, fired |-> FALSE]

\* The Observer and the Director of one game, five seconds after they were
\* built: three scare-triggered events were handled at the start, the Director
\* has fired all of the scares of a behaviour but the last one as whispers, and
\* neither has run a tick yet.  One more event or action of the player and two
\* updates of the Observer follow.
InitOwnership ==
    /\ now = 5
    /\ player = [NewPlayer EXCEPT
                    !.Sanity = MaxSanity - (MaxScares - 1) * FiredWhisper.Intensity * 5]
    /\ playerActions = <<>>
    /\ insertedActions = <<>>
    /\ fearResponses = ScaredResponses
    /\ insertedResponses = ScaredResponses
    /\ fearProfile = [k \in FearTypes |-> 500]
    /\ reactorProfile = [k \in ReactorTypes |-> 500]
    /\ predictedActions = [a \in ActionTypes |-> 0]
    /\ lastObservationTime = 0
    /\ context = [TimeSinceLastScare |-> 0, CurrentSanity |-> MaxSanity,
                  RecentSanityLoss |-> 0]
    /\ recommendedScares = <<>>
    /\ tension = InitialTension
    /\ movementPreference = 500
    /\ lastAnalysisTime = 0
    /\ scareHistory = [i \in 1..(MaxScares - 1) |-> FiredWhisper]
    /\ InitWorld
    /\ InitGame
    /\ InitAnalyzer
    /\ InitEvents
    /\ nEvents = MaxEvents - 1
    /\ nTicks = MaxTicks - 2
    /\ analysedResponses = [k \in FearTypes |-> 0]
    /\ last = [op |-> "new", data |-> NoEvent, draw |-> 0, fired |-> FALSE]

\* The inputs of a recommendation pass: fear profiles inside and outside [0, 1]
\* (a response strength is whatever float64 the scare event carried, NaN
\* included, and the moving average hands it on to the profile), sanity values
\* inside and outside [0, 100], and times since the last scare.
ProfileOf(values) == [k \in FearTypes |-> values[k + 1]]

ProfileInputs ==
    {ProfileOf(<<500, 500, 500, 500, 500, 500, 500, 800, 900>>),
     ProfileOf(<<100, 200, 300, 400, 500, 600, 700, 800, 900>>),
     ProfileOf(<<5000, -1000, 1500, 0, 2000, 300, -200, 1000, 50>>),
     ProfileOf(<<-900, -800, -700, -600, -500, -400, -300, -200, -100>>),
     ProfileOf(<<500, NaN, 300, 400, 500, 600, 700, 800, 900>>)}

SanityInputs == {-50000, 0, 50000, 100000, 250000}
ScareAgeInputs == {0, 29, 30, 60}

\* the list an earlier pass has left: made from the profile of Initialize and
\* the context of NewObserverSystem, for the kinds the map happened to give first
StaleRecommendations ==
    [i \in 1..3 |->
        generateRecommendationForFearType(
            <<FearDarkness, FearGore, FearSuddenNoises>>[i],
            <<EventEnvironmentChange, EventHallucination, EventSuddenNoise>>[i],
            [k \in FearTypes |-> 500],
            [TimeSinceLastScare |-> 60, CurrentSanity |-> MaxSanity,
             RecentSanityLoss |-> 0],
            Vector2D(128, 128))]

InitRecommend ==
    /\ now = 0
    /\ player = NewPlayer
    /\ playerActions = <<>>
    /\ fearResponses = [k \in FearTypes |-> <<>>]
    /\ fearProfile \in ProfileInputs
    /\ reactorProfile = [k \in ReactorTypes |-> 500]
    /\ predictedActions = [a \in ActionTypes |-> 0]
    /\ lastObservationTime = now
    /\ context \in {[TimeSinceLastScare |-> t, CurrentSanity |-> sanity,
                     RecentSanityLoss |-> 0] :
                        t \in ScareAgeInputs, sanity \in SanityInputs}
    /\ recommendedScares \in {<<>>, StaleRecommendations}
    /\ InitDirector
    /\ InitWorld
    /\ InitGame
    /\ InitAnalyzer
    /\ InitEvents
    /\ InitHistory

-----------------------------------------------------------------------------
(* Specifications *)

\* the Observer: event handlers and ticks
NextObserver ==
    \/ OnPlayerMoved
    \/ OnPlayerDamaged
    \/ OnPlayerSanityChanged
    \/ OnPlayerInteracted
    \/ OnScareTriggered
    \/ ObserverClock

SpecObserver == Init /\ [][NextObserver]_vars

\* the same Observer with histories close to their capacities
SpecLongRun == InitLongRun /\ [][NextObserver]_vars

\* Game.Update calls the Director only in StatePlaying, which ends with the
\* player's health or sanity at 0
StillPlaying == player.Health > 0 /\ player.Sanity > 0

\* the Director in the game loop
NextDirector ==
    \/ MoveForward
    \/ Interact
    \/ (StillPlaying /\ AnalyzePlayerBehavior)
    \/ (StillPlaying /\ AdjustWorld)
    \/ DirectorClock

SpecDirector == Init /\ [][NextDirector]_vars

\* the Director and a creature that wears the player's sanity down
NextSanity ==
    \/ CreatureAttack
    \/ (StillPlaying /\ AdjustWorld)
    \/ DirectorClock

SpecSanity == Init /\ [][NextSanity]_vars

\* one trigger decision of a Director that has been running
NextDecision == AdjustWorld

SpecDecision == InitDecision /\ [][NextDecision]_vars

\* the ticks of a Director that has been running, while the player acts
NextTension ==
    \/ PlayerInteracts
    \/ DirectorClock
    \/ (StillPlaying /\ AnalyzePlayerBehavior)
    \/ (StillPlaying /\ AdjustWorld)

SpecTension == InitTension /\ [][NextTension]_vars

\* producers and the consumer of the event queue
NextEvents ==
    \/ \E p \in Producers : TriggerCall(p)
    \/ \E p \in Producers : TriggerLock(p)
    \/ \E p \in Producers : TriggerAppend(p)
    \/ ProcessLock
    \/ ProcessTake
    \/ DispatchRLock
    \/ DispatchCallbacks
    \/ ProcessReturn

SpecEvents == Init /\ [][NextEvents]_vars

\* one producer, and the consumer with a callback that triggers: Trigger runs
\* on the producer's goroutine or, called by the callback, on the consumer's
RelayCallers == {"input", "dispatcher"}

NextReentrant ==
    \/ TriggerCall("input")
    \/ \E p \in RelayCallers : TriggerLock(p)
    \/ \E p \in RelayCallers : TriggerAppend(p)
    \/ ProcessLock
    \/ ProcessTake
    \/ DispatchRLock
    \/ DispatchCallbacks
    \/ ProcessReturn

\* a goroutine that can take a step is scheduled; the producer stops after
\* MaxTriggered events, so the consumer is not kept waiting for ever
SpecReentrant == InitReentrant /\ [][NextReentrant]_vars /\ WF_vars(NextReentrant)

\* the same with listeners being removed between two drains
NextListeners ==
    \/ NextEvents
    \/ RemoveListener
    \/ RemoveCustomListener

SpecListeners == Init /\ [][NextListeners]_vars

\* action events and analysis cycles of the Observer
NextReactor ==
    \/ OnPlayerMoved
    \/ OnPlayerDamaged
    \/ OnPlayerInteracted
    \/ ObserverAnalyzePlayerBehavior

SpecReactor == InitReactor /\ [][NextReactor]_vars

\* the Observer and the Director side by side
NextOwnership ==
    \/ OnPlayerMoved
    \/ OnPlayerDamaged
    \/ OnPlayerSanityChanged
    \/ OnPlayerInteracted
    \/ OnScareTriggered
    \/ Update
    \/ PlayerInteracts
    \/ (StillPlaying /\ AnalyzePlayerBehavior)
    \/ (StillPlaying /\ AdjustWorld)

SpecOwnership == InitOwnership /\ [][NextOwnership]_vars

\* the calls of ModifyEnvironment the model draws: at the corner the Director's
\* events lie at, in the middle, and from a point beyond the far corner; with
\* no, a usual and the full intensity
EnvironmentPositions == {Vector2D(0, 0), Vector2D(128, 128), Vector2D(262, 255)}
EnvironmentIntensities == {0, 210, 1000}

\* one call of World.ModifyEnvironment; the tiles after it are Tiles(envCalls')
EnvironmentModified ==
    /\ Len(envCalls) < MaxEnvCalls
    /\ \E position \in EnvironmentPositions, intensity \in EnvironmentIntensities :
          envCalls' = Append(envCalls, [Position |-> position,
                                        Intensity |-> intensity])
    /\ last' = [op |-> "ModifyEnvironment", data |-> NoEvent, draw |-> 0,
                fired |-> FALSE]
    /\ UNCHANGED <<now, player, observerVars, historyVars, directorVars, entities,
                   analyzer, eventVars, game>>

NextEnvironment == EnvironmentModified

\* a new world and the calls made on it
SpecEnvironment == Init /\ [][NextEnvironment]_vars

-----------------------------------------------------------------------------
(* Game: the loop that drives the player, the world and the Director *)

\* the Director's fields as one value, for the calls Game.Update makes in a row
DirectorOf(tens, preference, analysed, history) ==
    [tension |-> tens, movementPreference |-> preference,
     lastAnalysisTime |-> analysed, scareHistory |-> history]

\* NewDirector at the given time
NewDirector(clock) == DirectorOf(InitialTension, 500, clock, <<>>)

\* Director.AnalyzePlayerBehavior on the player as handlePlayerInput left it
analyzedBehavior(p, d, clock) ==
    LET recentLogs == SelectSeq(p.ActionLog,
                                LAMBDA log : log.Timestamp > d.lastAnalysisTime)
        moveCount == Cardinality({i \in 1..Len(recentLogs) :
                                     recentLogs[i].Action = PlayerActionMove})
    IN  IF Len(p.ActionLog) = 0
        THEN d
        ELSE IF Len(recentLogs) = 0
             THEN [d EXCEPT !.lastAnalysisTime = clock]
             ELSE [d EXCEPT
                     !.lastAnalysisTime = clock,
                     !.movementPreference =
                         (@ * 8 * Len(recentLogs) + 2000 * moveCount)
                            \div (10 * Len(recentLogs)),
                     !.tension = updateMoodAndTension(@)]

\* createScareEvent for the player and the time of this update
scareEventFor(p, clock, eventType, r, duration, creature, offset) ==
    LET event == [Type |-> eventType,
                  Intensity |-> eventIntensity(r),
                  Position |-> VectorFromEntity("entity.Vector2D", p.Position),
                  Duration |-> 2 + duration,
                  CreatureType |-> "",
                  Timestamp |-> clock]
    IN  IF eventType = EventCreatureAppearance
        THEN [event EXCEPT
                !.CreatureType = creatureTypes[creature + 1],
                !.Position = Vector2D(p.Position.X + offset.X,
                                      p.Position.Y + offset.Y)]
        ELSE event

\* the events createScareEvent may return in this update
ScareEventsFor(p, clock) ==
    {scareEventFor(p, clock, eventType, r, duration, 0, Vector2D(0, 0)) :
        eventType \in ScareEventTypes \ {EventCreatureAppearance},
        r \in IntensityDraws, duration \in DurationDraws}
    \cup
    {scareEventFor(p, clock, EventCreatureAppearance, r, 2, creature, offset) :
        r \in IntensityDraws, creature \in CreatureDraws, offset \in SpawnOffsets}

\* what the update has in hand: the player, the Director and the world
Scene(p, d, ents, calls, fired) ==
    [player |-> p, director |-> d, entities |-> ents, envCalls |-> calls,
     fired |-> fired]

\* executeScareEvent on a scene
executedScare(scene, event) ==
    Scene([scene.player EXCEPT !.Sanity = ReduceSanity(@, event.Intensity * 5)],
          [scene.director EXCEPT
              !.scareHistory = appendToHistory(@, event)],
          IF event.Type = EventCreatureAppearance /\ ImplementsSpawner
          THEN SpawnCreature(scene.entities, event.CreatureType, event.Position)
          ELSE scene.entities,
          IF event.Type = EventEnvironmentChange /\ ImplementsModifier
          THEN Append(scene.envCalls, [Position |-> event.Position,
                                       Intensity |-> event.Intensity])
          ELSE scene.envCalls,
          TRUE)

\* Director.AdjustWorld on a scene: every result the draws allow
adjustedWorlds(scene, clock) ==
    LET chance == baseChance(scene.director.tension, scene.director.scareHistory,
                             clock)
    IN  (IF \E draw \in ChanceDraws : ~(draw < chance) THEN {scene} ELSE {})
        \cup
        (IF \E draw \in ChanceDraws : draw < chance
         THEN {executedScare(scene, event) :
                  event \in ScareEventsFor(scene.player, clock)}
         ELSE {})

\* the keys of one update: none, W held, E or Escape or Enter just pressed,
\* and Escape together with W
KeyInputs == {{}, {"W"}, {"E"}, {"Escape"}, {"Enter"}, {"W", "Escape"}}

\* handlePlayerInput, the player's part (Direction is 0)
inputPlayer(p, keys, clock) ==
    LET moved == IF "W" \in keys
                 THEN [p EXCEPT
                         !.Position = Vector2D(@.X + MoveSpeed, @.Y),
                         !.ActionLog =
                             Append(@, [Action |-> PlayerActionMove,
                                        Timestamp |-> clock])]
                 ELSE p
    IN  IF "E" \in keys
        THEN [moved EXCEPT
                !.ActionLog = Append(@, [Action |-> PlayerActionInteract,
                                         Timestamp |-> clock])]
        ELSE moved

\* handlePlayerInput, the pause key
inputState(state, keys) ==
    IF "Escape" \in keys
    THEN IF state = StatePlaying THEN StatePaused
         ELSE IF state = StatePaused THEN StatePlaying ELSE state
    ELSE state

\* the Director runs in an update whose frame count is a multiple of 30
DirectorFrame(frameCount) == frameCount % 30 = 0

\* mutant: the player's state is tested before the Director has run
gameOverCheck_early(before, after, state) ==
    IF before.Health <= 0 \/ before.Sanity <= 0 THEN StateGameOver ELSE state

\* if g.player.Health <= 0 || g.player.Sanity <= 0 { g.state = StateGameOver }
gameOverCheck(before, after, state) ==
    IF after.Health <= 0 \/ after.Sanity <= 0 THEN StateGameOver ELSE state

\* the rest of an update: only the game's own fields change
GameOnly(state, frameCount, started) ==
    /\ game' = [state |-> state, frameCount |-> frameCount]
    /\ last' = [op |-> "Game.Update", data |-> NoEvent, draw |-> 0, fired |-> FALSE,
                started |-> started, directorRan |-> FALSE,
                stateAtDirector |-> started, reset |-> FALSE]
    /\ UNCHANGED <<player, directorVars, worldVars>>

\* case StatePlaying of Game.Update; World.Update and Player.Update change nothing
UpdatePlaying(keys, frameCount) ==
    LET p == inputPlayer(player, keys, now')
        state == inputState(StatePlaying, keys)
        d == DirectorOf(tension, movementPreference, lastAnalysisTime, scareHistory)
        scene == Scene(p, d, entities, envCalls, FALSE)
    IN  /\ Len(p.ActionLog) <= MaxLog
        /\ \E result \in IF DirectorFrame(frameCount)
                         THEN adjustedWorlds(
                                 [scene EXCEPT
                                     !.director = analyzedBehavior(p, d, now')],
                                 now')
                         ELSE {scene} :
              /\ player' = result.player
              /\ tension' = result.director.tension
              /\ movementPreference' = result.director.movementPreference
              /\ lastAnalysisTime' = result.director.lastAnalysisTime
              /\ scareHistory' = result.director.scareHistory
              /\ entities' = result.entities
              /\ envCalls' = result.envCalls
              /\ game' = [state |-> gameOverCheck(p, result.player, state),
                          frameCount |-> frameCount]
              /\ last' = [op |-> "Game.Update", data |-> NoEvent, draw |-> 0,
                          fired |-> result.fired, started |-> StatePlaying,
                          directorRan |-> DirectorFrame(frameCount),
                          stateAtDirector |-> state, reset |-> FALSE]

\* resetGame: a new player, a new world, a new Director
resetGame ==
    /\ player' = NewPlayer
    /\ entities' = <<>>
    /\ envCalls' = <<>>
    /\ tension' = NewDirector(now').tension
    /\ movementPreference' = NewDirector(now').movementPreference
    /\ lastAnalysisTime' = NewDirector(now').lastAnalysisTime
    /\ scareHistory' = NewDirector(now').scareHistory
    /\ game' = [state |-> StateMainMenu, frameCount |-> 0]
    /\ last' = [op |-> "Game.Update", data |-> NoEvent, draw |-> 0, fired |-> FALSE,
                started |-> StateGameOver, directorRan |-> FALSE,
                stateAtDirector |-> StateGameOver, reset |-> TRUE]

\* the scares that bring the sanity of a new player close to 0, the frames a
\* game needs for them, and the seconds these take at 60 updates a second
PlayedScares == (MaxSanity - 1) \div (FiredWhisper.Intensity * 5)
PlayedFrames == 30 * PlayedScares + 28
GameClock == PlayedFrames \div 60

\* Game.Update, called by the engine once per tick; the clock may have passed
\* a full second since the update before
GameUpdate ==
    /\ nTicks < MaxUpdates
    /\ nTicks' = nTicks + 1
    /\ \E elapsed \in {0, 1} :
          /\ elapsed = 1 => now < GameClock + MaxGameSeconds
          /\ now' = now + elapsed
    /\ \E keys \in KeyInputs :
          LET frameCount == game.frameCount + 1
          IN  CASE game.state = StateMainMenu ->
                     GameOnly(IF "Enter" \in keys THEN StatePlaying ELSE StateMainMenu,
                              frameCount, StateMainMenu)
                [] game.state = StatePlaying -> UpdatePlaying(keys, frameCount)
                [] game.state = StatePaused ->
                     GameOnly(IF "Escape" \in keys THEN StatePlaying ELSE StatePaused,
                              frameCount, StatePaused)
                [] game.state = StateGameOver ->
                     IF "Enter" \in keys
                     THEN resetGame
                     ELSE GameOnly(StateGameOver, frameCount, StateGameOver)
    /\ UNCHANGED <<observerVars, analyzer, eventVars, insertedActions,
                   insertedResponses, nEvents, analysedResponses>>

\* a game just constructed, and a game in which the player never pressed a
\* key and every decision of the Director fired a whisper
InitGames ==
    /\ now = GameClock
    /\ entities = <<>>
    /\ envCalls = <<>>
    /\ movementPreference = 500
    /\ tension = InitialTension
    /\ \/ /\ player = NewPlayer
          /\ lastAnalysisTime = now
          /\ scareHistory = <<>>
          /\ game = NewGame
       \/ /\ player = [NewPlayer EXCEPT
                         !.Sanity = @ - PlayedScares * FiredWhisper.Intensity * 5]
          /\ lastAnalysisTime = 0
          /\ scareHistory = [i \in 1..PlayedScares |->
                               [FiredWhisper EXCEPT !.Timestamp = i \div 2]]
          /\ game = [state |-> StatePlaying, frameCount |-> PlayedFrames]
    /\ InitObserver
    /\ InitAnalyzer
    /\ InitEvents
    /\ InitHistory

NextGame == GameUpdate

SpecGame == InitGames /\ [][NextGame]_vars

\* updates of the Observer while the clock runs
NextUpdate ==
    \/ Update
    \/ UpdateClock
    \/ AttackedByFaceless

SpecUpdate == InitUpdate /\ [][NextUpdate]_vars

\* updates of the Observer within the 5 seconds after its construction, while
\* the player's sanity falls and is restored
NextContext ==
    \/ Update
    \/ AttackedByFaceless
    \/ TakePills

SpecContext == InitContext /\ [][NextContext]_vars

\* fear responses and analysis cycles of the Observer
NextFear ==
    \/ OnSanityLoss
    \/ OnScareStrength
    \/ ObserverAnalyzePlayerBehavior

SpecFear == Init /\ [][NextFear]_vars

\* the Analyzer, the player it watches and the responses it is told
NextPatterns ==
    \/ PlayerMoves
    \/ PlayerInteracts
    \/ ScareResponseRecorded
    \/ AnalyzePlayer

SpecPatterns == InitPatterns /\ [][NextPatterns]_vars

\* the Analyzer and a player who walks along the X axis
NextPositions ==
    \/ PlayerMoves
    \/ AnalyzePlayer

SpecPositions == InitPositions /\ [][NextPositions]_vars

\* the Observer and the changes of the player's sanity it is told
NextOutcomes ==
    \/ OnSanityOutcome
    \/ OnPlayerDamaged
    \/ ObserverClock

SpecOutcomes == Init /\ [][NextOutcomes]_vars

\* the recommendation pass on drawn inputs
NextRecommend == RecommendationPass

SpecRecommend == InitRecommend /\ [][NextRecommend]_vars

-----------------------------------------------------------------------------
(* Claims about the Observer's histories and handlers *)

HandlerOps == {"recordMovement", "recordDamage", "recordSanityChange",
               "recordInteraction", "recordScareResponse"}

\* this step is the dispatch of one event to its handler
HandlerStep == nEvents' = nEvents + 1 /\ last'.op \in HandlerOps

\* C1: the action history holds at most 1000 records, and always exactly the
\* most recently inserted ones (all of them up to 1000), in insertion order.
C1_ActionHistoryBounded ==
    /\ Len(playerActions) <= 1000
    /\ playerActions = SubSeq(insertedActions,
                              Max(1, Len(insertedActions) - 999),
                              Len(insertedActions))

\* more than 1000 records were inserted, the last one after the overflow
C1_Witness ==
    /\ Len(insertedActions) > 1000
    /\ last.op \in {"recordMovement", "recordDamage", "recordInteraction"}
    /\ Len(playerActions) = 1000

\* C2: for every fear-kind the response history holds at most 20 responses, and
\* always exactly the most recent responses of that kind, in arrival order; a
\* step that brings no response of a kind leaves that kind's history unchanged.
C2_KindHistory(k) ==
    /\ Len(fearResponses[k]) <= 20
    /\ fearResponses[k] = SubSeq(insertedResponses[k],
                                 Max(1, Len(insertedResponses[k]) - 19),
                                 Len(insertedResponses[k]))
    /\ \A i \in 1..Len(fearResponses[k]) : fearResponses[k][i].FearType = k

C2_FearHistoriesBounded ==
    /\ [](\A k \in FearTypes : C2_KindHistory(k))
    /\ [][\A k \in FearTypes :
             insertedResponses'[k] = insertedResponses[k]
                => fearResponses'[k] = fearResponses[k]]_vars

\* a kind has overflowed while another kind holds responses too
C2_Witness ==
    \E k, j \in FearTypes :
        /\ k # j
        /\ Len(insertedResponses[k]) > 20
        /\ Len(fearResponses[k]) = 20
        /\ last.op \in {"recordSanityChange", "recordScareResponse"}
        /\ fearResponses[j] # <<>>

\* the required payload field of each event kind is missing or mistyped
MalformedPayload(data) ==
    CASE data.Type = EventPlayerMoved ->
           data.Position.tag # "entity.Vector2D"
      [] data.Type = EventPlayerDamaged ->
           data.Source.tag = "nil"
      [] data.Type = EventPlayerSanityChanged ->
           data.Value.tag # "float64"
      [] data.Type = EventPlayerInteracted ->
           data.Target.tag = "nil"
      [] data.Type = EventScareTriggered ->
           data.Custom.isNil \/ data.Custom.scareType.tag # "ai.ScareEventType"
      [] OTHER -> FALSE

\* C3: an event whose required payload field is missing or has the wrong type
\* changes neither the action history, nor any fear-response history, nor
\* TimeSinceLastScare.
C3_MalformedIsNoOp ==
    [][(HandlerStep /\ MalformedPayload(last'.data))
          => /\ playerActions' = playerActions
             /\ fearResponses' = fearResponses
             /\ context'.TimeSinceLastScare = context.TimeSinceLastScare]_vars

\* a mistyped scare kind was rejected after both histories had taken entries
C3_Witness ==
    /\ last.op = "recordScareResponse"
    /\ last.data.Custom.scareType.tag = "common.ScareEventType"
    /\ playerActions # <<>>
    /\ \E k \in FearTypes : fearResponses[k] # <<>>

WellFormedScare(data) ==
    /\ data.Type = EventScareTriggered
    /\ ~data.Custom.isNil
    /\ data.Custom.scareType.tag = "ai.ScareEventType"

\* C4: a well-formed scare-triggered event sets TimeSinceLastScare to 0 and
\* files exactly one new response, under the fear-kind its scare-kind maps to,
\* as the newest entry of that kind; no other event kind writes
\* TimeSinceLastScare.
C4_ScareResetsAndFiles ==
    [][HandlerStep =>
         IF WellFormedScare(last'.data)
         THEN LET k == mapScareEventToFearType(last'.data.Custom.scareType.x)
              IN  /\ context'.TimeSinceLastScare = 0
                  /\ Len(insertedResponses'[k]) = Len(insertedResponses[k]) + 1
                  /\ fearResponses'[k][Len(fearResponses'[k])].FearType = k
                  /\ fearResponses'[k][Len(fearResponses'[k])]
                        = insertedResponses'[k][Len(insertedResponses'[k])]
                  /\ \A i \in 1..(Len(fearResponses'[k]) - 1) :
                        fearResponses'[k][i] \in
                           {fearResponses[k][j] : j \in 1..Len(fearResponses[k])}
                  /\ \A j \in FearTypes \ {k} :
                        /\ fearResponses'[j] = fearResponses[j]
                        /\ insertedResponses'[j] = insertedResponses[j]
         ELSE context'.TimeSinceLastScare = context.TimeSinceLastScare]_vars

\* a scare event was recorded while the time since the last scare was not 0
C4_Witness ==
    /\ last.op = "recordScareResponse"
    /\ WellFormedScare(last.data)
    /\ context.TimeSinceLastScare = 0
    /\ \E k \in FearTypes : Len(insertedResponses[k]) = 1

-----------------------------------------------------------------------------
(* Claims about the Director *)

\* this step is a trigger decision
DecisionStep == last'.op = "AdjustWorld"

\* this step is a trigger decision that fired: a scare event was executed
FireStep == DecisionStep /\ Len(scareHistory') = Len(scareHistory) + 1

\* the event a firing step has executed
FiredEvent == scareHistory'[Len(scareHistory')]

\* C5: immediately after the Director has executed a scare event, the
\* Observer context's TimeSinceLastScare is 0.
C5_FireResetsObserverClock ==
    [][FireStep => context'.TimeSinceLastScare = 0]_vars

\* the chance the decision is said to use, in thousandths
C6_ExpectedChance ==
    IF scareHistory = <<>>
    THEN tension \div 10 + 300
    ELSE LET since == now - scareHistory[Len(scareHistory)].Timestamp
         IN  tension \div 10
             + (IF since > 30 THEN 100 ELSE 0)
             + (IF since > 60 THEN 200 ELSE 0)

\* C6: a trigger decision fires if and only if its draw is below
\* tension*0.1 + 0.3 when no scare has fired yet, and otherwise below tension*0.1
\* plus 0.1 after more than 30 s since the last fired scare plus a further 0.2
\* after more than 60 s; a decision that does not fire changes nothing.
C6_TriggerDecision ==
    [][DecisionStep =>
         IF last'.draw < C6_ExpectedChance
         THEN FireStep
         ELSE UNCHANGED <<scareHistory, player, entities, envCalls>>]_vars

\* tension 0.5 and no scare fired: the draw 0.30 has fired
C6_Witness ==
    /\ last.op = "AdjustWorld"
    /\ tension = 500
    /\ last.draw = 300
    /\ last.fired
    /\ Len(scareHistory) = 1

\* C7: a trigger decision taken less than 30 s after the last fired scare
\* fires if and only if its draw is below tension*0.1: no time bonus and no
\* never-fired bonus is added.
C7_NoBonusAfterFire ==
    [][(/\ DecisionStep
        /\ scareHistory # <<>>
        /\ now - scareHistory[Len(scareHistory)].Timestamp < 30)
          => (FireStep <=> last'.draw < tension \div 10)]_vars

\* 29 s after a fire the draw 0.01 did not fire at tension 0.1
C7_Witness ==
    /\ last.op = "AdjustWorld"
    /\ ~last.fired
    /\ last.draw = 10
    /\ tension = 100
    /\ scareHistory # <<>>
    /\ now - scareHistory[Len(scareHistory)].Timestamp = 29

\* C8: executing a scare event has exactly one world effect, chosen by its
\* kind: a creature-appearance event adds one creature of the event's creature
\* type at the event's position, an environment-change event calls
\* ModifyEnvironment(position, intensity) once, and every other kind leaves
\* the world as it was.
C8_OneWorldEffectByKind ==
    [][FireStep =>
         CASE FiredEvent.Type = EventCreatureAppearance ->
                /\ Len(entities') = Len(entities) + 1
                /\ SubSeq(entities', 1, Len(entities)) = entities
                /\ entities'[Len(entities')].Type = FiredEvent.CreatureType
                /\ entities'[Len(entities')].Position = FiredEvent.Position
                /\ envCalls' = envCalls
           [] FiredEvent.Type = EventEnvironmentChange ->
                /\ envCalls' = Append(envCalls, [Position |-> FiredEvent.Position,
                                                 Intensity |-> FiredEvent.Intensity])
                /\ entities' = entities
           [] OTHER ->
                /\ entities' = entities
                /\ envCalls' = envCalls]_vars

\* C9: executing a scare event of any kind lowers the player's sanity by
\* exactly five times the event's intensity, but not below 0.
C9_SanityLoweredAndFloored ==
    [][FireStep =>
         /\ player'.Sanity = Max(0, player.Sanity - 5 * FiredEvent.Intensity)
         /\ player'.Sanity >= 0]_vars

\* a scare was executed on a player with less sanity left than it takes
C9_Witness ==
    /\ last.op = "AdjustWorld"
    /\ last.fired
    /\ scareHistory # <<>>
    /\ player.Sanity = 0

-----------------------------------------------------------------------------
(* Claims about the recommendations *)

\* C10: every recommendation the pass leaves has an intensity within
\* [0.3, 1.0], whatever the fear profile and the sanity are.
C10_IntensityWithinBounds ==
    \A i \in 1..Len(recommendedScares) :
        /\ ~IsNaN(recommendedScares[i].Intensity)
        /\ recommendedScares[i].Intensity >= IntensityFloor
        /\ recommendedScares[i].Intensity <= IntensityCeil

\* this step is a recommendation pass
RecommendationStep == last'.op = "GenerateScareRecommendations"

FearTargets(recs) == {recs[i].FearTarget : i \in 1..Len(recs)}

-----------------------------------------------------------------------------
(* Claims about the Observer's analysis *)

\* this step is one analysis cycle of the Observer
ObserverAnalysisStep == last'.op = "ObserverSystem.AnalyzePlayerBehavior"

\* C14: when the reactor profile is recomputed (at least 10 action records),
\* all six scores lie in [0, 1]; if the six raw scores are not all equal the
\* lowest score is exactly 0 and the highest exactly 1, and if they are all
\* equal every score is exactly 0.5.
C14_NormalizedScores ==
    [][(ObserverAnalysisStep /\ Len(playerActions) >= 10) =>
         LET raw == rawReactorScores(playerActions)
             scores == {reactorProfile'[k] : k \in ReactorTypes}
         IN  /\ DOMAIN reactorProfile' = ReactorTypes
             /\ \A v \in scores : 0 <= v /\ v <= 1000
             /\ IF \E j, k \in ReactorTypes : raw[j] # raw[k]
                THEN 0 \in scores /\ 1000 \in scores
                ELSE scores = {500}]_vars

\* a cycle has normalized unequal raw scores: lowest 0, highest 1, one between
C14_Witness ==
    /\ last.op = "ObserverSystem.AnalyzePlayerBehavior"
    /\ Len(playerActions) >= 10
    /\ \E i, j, k \in ReactorTypes :
          /\ reactorProfile[i] = 0
          /\ reactorProfile[j] = 1000
          /\ 0 < reactorProfile[k] /\ reactorProfile[k] < 1000

\* C15: an analysis cycle on an action history of fewer than 10 records
\* leaves every reactor score exactly as it was.
C15_TooFewRecordsKeepsProfile ==
    [][(ObserverAnalysisStep /\ Len(playerActions) < 10) =>
         reactorProfile' = reactorProfile]_vars

\* a cycle ran on nine records of several kinds and the scores are still 0.5
C15_Witness ==
    /\ last.op = "ObserverSystem.AnalyzePlayerBehavior"
    /\ Len(playerActions) = 9
    /\ \E i, j \in 1..9 : playerActions[i].Type # playerActions[j].Type
    /\ \A k \in ReactorTypes : reactorProfile[k] = 500

\* C16: an analysis cycle leaves the profile value of every fear-kind that
\* received no new response since the previous cycle unchanged, whether or
\* not older responses of that kind are still held.
C16_NoNewDataNoChange ==
    [][ObserverAnalysisStep =>
         \A k \in FearTypes :
            Len(insertedResponses[k]) = analysedResponses[k]
               => fearProfile'[k] = fearProfile[k]]_vars

\* the strengths held for a kind, as a bag
StrengthBag(k) ==
    [v \in {fearResponses[k][i].StrengthOfFear : i \in 1..Len(fearResponses[k])} |->
        Cardinality({i \in 1..Len(fearResponses[k]) :
                        fearResponses[k][i].StrengthOfFear = v})]

\* C17: an analysis cycle sets the profile value of every fear-kind that
\* holds responses to old*0.7 + mean(their strengths)*0.3 (to the thousandth
\* below), so 0.5 with the strengths 0.2, 0.4, 0.6 becomes 0.47, and leaves
\* the value of every kind that holds none as it was.
C17_MovingAverage ==
    [][ObserverAnalysisStep =>
         \A k \in FearTypes :
            IF fearResponses[k] = <<>>
            THEN fearProfile'[k] = fearProfile[k]
            ELSE LET n == Len(fearResponses[k])
                     exact == 7 * n * fearProfile[k] + 3 * SumStrength(fearResponses[k])
                 IN  /\ 10 * n * fearProfile'[k] <= exact
                     /\ exact < 10 * n * (fearProfile'[k] + 1)
                     /\ (/\ fearProfile[k] = 500
                         /\ StrengthBag(k) = (200 :> 1 @@ 400 :> 1 @@ 600 :> 1))
                           => fearProfile'[k] = 470]_vars

\* the first cycle found the strengths 0.2, 0.4, 0.6 for sudden noises
C17_Witness ==
    /\ last.op = "ObserverSystem.AnalyzePlayerBehavior"
    /\ nTicks = 1
    /\ StrengthBag(FearSuddenNoises) = (200 :> 1 @@ 400 :> 1 @@ 600 :> 1)
    /\ fearProfile[FearSuddenNoises] = 470
    /\ fearProfile[FearCreatures] = 500

\* C18: before the first analysis cycle every one of the nine fear-kinds has
\* the profile value 0.5, and in every state every profile value lies within
\* [0, 1].
C18_ProfileWithinUnit ==
    /\ DOMAIN fearProfile = FearTypes
    /\ nTicks = 0 => \A k \in FearTypes : fearProfile[k] = 500
    /\ \A k \in FearTypes : 0 <= fearProfile[k] /\ fearProfile[k] <= 1000

-----------------------------------------------------------------------------
(* Claims about the Analyzer's pattern list *)

\* this step is one analysis cycle of the Analyzer
AnalyzePlayerStep == last'.op = "AnalyzePlayer"

\* C19: when a pattern name that the previous cycle left in the list with
\* weight w1 is detected again in this cycle with weight w2, the list
\* afterwards holds exactly one entry of that name, with weight (w1+w2)/2.
C19_RepeatedPatternAveraged ==
    [][AnalyzePlayerStep =>
         \A i \in 1..Len(analyzer.detectedPatterns) :
            \A j \in 1..Len(detectionCalls(analyzer')) :
               LET old == analyzer.detectedPatterns[i]
                   new == detectionCalls(analyzer')[j]
                   entries == {h \in 1..Len(analyzer'.detectedPatterns) :
                                  analyzer'.detectedPatterns[h].Name = old.Name}
               IN  old.Name = new.Name =>
                      /\ Cardinality(entries) = 1
                      /\ \A h \in entries :
                            Abs(2 * analyzer'.detectedPatterns[h].Weight
                                  - (old.Weight + new.Weight)) <= 1]_vars

\* the counts a caller may ask GetTopPatterns for
TopCounts == 0..4

\* C20: the pattern list never holds two entries of one name and is ordered
\* by non-increasing weight, and GetTopPatterns(n) returns exactly its first
\* min(n, length) entries: the empty list when no pattern is detected.
C20_PatternListRanked ==
    LET patterns == analyzer.detectedPatterns
    IN  /\ \A i, j \in 1..Len(patterns) :
              i # j => patterns[i].Name # patterns[j].Name
        /\ \A i \in 1..(Len(patterns) - 1) :
              fge(patterns[i].Weight, patterns[i + 1].Weight)
        /\ \A n \in TopCounts :
              /\ Len(GetTopPatterns(patterns, n)) = Min(n, Len(patterns))
              /\ \A i \in 1..Min(n, Len(patterns)) :
                    GetTopPatterns(patterns, n)[i] = patterns[i]
              /\ patterns = <<>> => GetTopPatterns(patterns, n) = <<>>

\* a cycle has ranked three patterns detected in another order, and the top
\* two are asked for
C20_Witness ==
    /\ last.op = "AnalyzePlayer"
    /\ Len(analyzer.detectedPatterns) = 3
    /\ analyzer.detectedPatterns[1].Weight > analyzer.detectedPatterns[2].Weight
    /\ analyzer.detectedPatterns # addPatterns(<<>>, detectionCalls(analyzer))
    /\ Len(GetTopPatterns(analyzer.detectedPatterns, 2)) = 2

-----------------------------------------------------------------------------
(* Claims about the Observer's update *)

\* a step of ObserverSystem.Update
UpdateStep == last'.op = "Update" /\ nTicks' = nTicks + 1

\* C21: an update runs the analysis pass (the profiles recomputed, then the
\* recommendations generated from them, then the time of the pass noted) if
\* and only if at least 5 seconds have passed since the previous pass or the
\* construction; an earlier update leaves profiles, recommendations and the
\* time of the pass alone; either way the context is updated, and nothing but
\* a pass moves the time of the pass.
C21_PassEveryFiveSeconds ==
    [][/\ UpdateStep =>
            /\ last'.fired <=> now - lastObservationTime >= 5
            /\ last'.fired =>
                   /\ lastObservationTime' = now
                   /\ fearProfile' = analyzeFearProfile(fearProfile, fearResponses)
                   /\ reactorProfile' = analyzeReactorProfile(reactorProfile, playerActions)
                   /\ recommendedScares' \in
                          GenerateScareRecommendations(fearProfile', context,
                                                       player.Position)
            /\ ~last'.fired =>
                   UNCHANGED <<fearProfile, reactorProfile, predictedActions,
                               recommendedScares, lastObservationTime>>
            /\ context'.TimeSinceLastScare = context.TimeSinceLastScare + 1
            /\ context'.CurrentSanity = player.Sanity
       /\ lastObservationTime' # lastObservationTime =>
            /\ UpdateStep
            /\ lastObservationTime' - lastObservationTime >= 5]_vars

\* an update 4 seconds after a pass has skipped the pass and updated the context
C21_Witness ==
    /\ last.op = "Update"
    /\ ~last.fired
    /\ lastObservationTime = 5
    /\ now = 9
    /\ Len(recommendedScares) = 3
    /\ context.TimeSinceLastScare >= 2

\* C28: after an update CurrentSanity is the player's sanity and
\* RecentSanityLoss is what CurrentSanity was before the update minus the
\* player's sanity, or 0 when that is negative.
C28_SanityLossClamped ==
    [][UpdateStep =>
         /\ context'.CurrentSanity = player'.Sanity
         /\ context'.RecentSanityLoss =
               (IF context.CurrentSanity - player'.Sanity > 0
                THEN context.CurrentSanity - player'.Sanity ELSE 0)
         /\ context'.RecentSanityLoss >= 0]_vars

\* an update has seen sanity restored by the pills after a hit
C28_Witness ==
    /\ last.op = "Update"
    /\ nTicks >= 2
    /\ player.Sanity = MaxSanity - FacelessSanityDamage + PillsValue
    /\ context.CurrentSanity = player.Sanity
    /\ context.RecentSanityLoss = 0

\* C29: with no scare-triggered event since the three at time 0, after every
\* update TimeSinceLastScare is the time that has passed since then.
C29_ScareClockIsWallClock ==
    last.op = "Update" => context.TimeSinceLastScare = now

-----------------------------------------------------------------------------
(* Claims about the Director's mood and tension *)

\* a tick of the Director: Game.Update calls AnalyzePlayerBehavior
DirectorTickStep == last'.op = "AnalyzePlayerBehavior"

\* C22: every tick of the Director raises the tension by 0.01, up to 1.
C22_TensionRisesEveryTick ==
    [][DirectorTickStep => tension' = Min(1000, tension + 10)]_vars

-----------------------------------------------------------------------------
(* Claims about the constructed scare events *)

\* what the Director's mood and the player's reactivity may be, and the draws
MoodInputs == {0, 300, 700, 1000}
ReactivityInputs == {0, 299, 300, 500}
DrawInputs == {0, 500, 999}

\* the intensities the formula gives for the Director's mood and the player's
\* reactivity, over every draw of rand.Float64() in thousandths
DirectorIntensities ==
    {Min(1000, (((mood * (700000 + 300 * r)) \div 1000000)
                  * (IF ReactivityToScares < 300 THEN 3 ELSE 2)) \div 2) : r \in 0..999}

\* C30: the intensity of a scare event is mood * (0.7 + 0.3 * r), times 1.5
\* when the reactivity to scares is below 0.3, and at most 1.0; every event in
\* the scare history has such an intensity for the Director's mood and the
\* player's reactivity, and it is within [0, 1].
C30_IntensityCapped ==
    /\ \A m \in MoodInputs, reactivity \in ReactivityInputs, r \in DrawInputs :
          LET base == (m * (700000 + 300 * r)) \div 1000000
              factor == IF reactivity < 300 THEN 3 ELSE 2
          IN  /\ intensityFor(m, reactivity, r) = Min(1000, (base * factor) \div 2)
              /\ 0 <= intensityFor(m, reactivity, r)
              /\ intensityFor(m, reactivity, r) <= 1000
    /\ \A i \in 1..Len(scareHistory) :
          /\ scareHistory[i].Intensity \in DirectorIntensities
          /\ 0 <= scareHistory[i].Intensity
          /\ scareHistory[i].Intensity <= 1000

\* a scare built from a draw of 0.8 is in the history: 0.3 * 0.94 = 0.282
C30_Witness ==
    /\ last.op = "AdjustWorld"
    /\ last.fired
    /\ scareHistory[Len(scareHistory)].Intensity = 282

-----------------------------------------------------------------------------
(* Claims about the event queue *)

\* the events the consumer holds or the queue holds and has not dispatched yet
PendingEvents ==
    {eventManager.queuedEvents[k].id : k \in 1..Len(eventManager.queuedEvents)}
    \cup {goroutines.events[k].id : k \in goroutines.i..Len(goroutines.events)}

\* the place of an event in the order of the appends
EnqueuedAt(id) == CHOOSE k \in 1..Len(eventLog.enqueued) : eventLog.enqueued[k].id = id

\* how often a callback was called with an event
Deliveries(id, callback) ==
    Cardinality({k \in 1..Len(eventLog.delivered) :
                    /\ eventLog.delivered[k].id = id
                    /\ eventLog.delivered[k].callback = callback})

\* the callbacks registered for the type or the custom name of an event
ListenersOf(event) ==
    (IF event.Type = EventPlayerDamaged
     THEN {"observer.recordDamage", "ui.onDamaged"} ELSE {})
    \cup (IF event.Type = EventCustom /\ event.Name = "inventory_updated"
          THEN {"ui.onInventory"} ELSE {})

\* C24: with producers triggering concurrently with the one consumer, every
\* appended event that is no longer pending has been given exactly once to
\* each listener of its type and to nobody else, a pending one to nobody; the
\* callbacks are called in the order of the appends; and every event is
\* dispatched by the first batch taken after its append, never by the drain
\* that was in progress when it was appended.
C24_QueueDeliversOnceInOrder ==
    /\ \A k \in 1..Len(eventLog.enqueued) :
          LET e == eventLog.enqueued[k]
          IN  \A callback \in {"observer.recordDamage", "ui.onDamaged", "ui.onInventory"} :
                 Deliveries(e.id, callback) =
                    (IF e.id \notin PendingEvents /\ callback \in ListenersOf(e.event)
                     THEN 1 ELSE 0)
    /\ \A k \in 1..Len(eventLog.delivered) :
          /\ \E j \in 1..Len(eventLog.enqueued) :
                eventLog.enqueued[j].id = eventLog.delivered[k].id
          /\ eventLog.delivered[k].batch =
                eventLog.enqueued[EnqueuedAt(eventLog.delivered[k].id)].batches + 1
          /\ k > 1 => EnqueuedAt(eventLog.delivered[k - 1].id)
                         <= EnqueuedAt(eventLog.delivered[k].id)

\* the producer that called Trigger second appended first, the consumer took
\* that event alone, a third event was appended while the drain was in
\* progress, and a later drain has dispatched it
C24_Witness ==
    /\ Len(eventLog.enqueued) = 3
    /\ eventLog.enqueued[1].id = 2
    /\ eventLog.enqueued[2].draining
    /\ eventLog.enqueued[2].batches = 1
    /\ eventLog.batches = 2
    /\ PendingEvents = {}
    /\ goroutines.consumer = "idle"
    /\ \E k \in 1..Len(eventLog.delivered) :
          /\ eventLog.delivered[k].id = eventLog.enqueued[2].id
          /\ eventLog.delivered[k].batch = 2

\* C25: a callback given to RemoveListener or RemoveCustomListener is not
\* called for any event dispatched by a later ProcessEvents.
C25_RemovedListenerNotCalled ==
    \A r \in eventLog.removed :
       \A k \in 1..Len(eventLog.delivered) :
          eventLog.delivered[k].callback = r.callback =>
             eventLog.delivered[k].batch <= r.batches

-----------------------------------------------------------------------------
(* Claims about values outside the enumerations *)

\* scare-kinds and fear-kinds that no constant names
UnknownScareKinds == {-1, 6, 9, 100}
UnknownFearKinds == {-1, 9, 10, 42}

\* C26: a scare-triggered event whose scare-kind is none of the six known
\* ones is handled like any other and files its response under FearUnknown,
\* and for a fear-kind that is none of the nine known ones the scare-kind
\* chosen is EventAmbientSound.
C26_UnknownKindsFallBack ==
    [][/\ HandlerStep /\ WellFormedScare(last'.data)
             /\ last'.data.Custom.scareType.x \notin ScareEventTypes =>
            /\ context'.TimeSinceLastScare = 0
            /\ Len(insertedResponses'[FearUnknown])
                  = Len(insertedResponses[FearUnknown]) + 1
            /\ fearResponses'[FearUnknown][Len(fearResponses'[FearUnknown])].FearType
                  = FearUnknown
            /\ \A k \in FearTypes \ {FearUnknown} :
                  fearResponses'[k] = fearResponses[k]
       /\ \A scareType \in UnknownScareKinds :
             mapScareEventToFearType(scareType) = FearUnknown
       /\ \A fearType \in UnknownFearKinds :
             chooseScareTypeForFearType(fearType) = {EventAmbientSound}]_vars

\* a scare event of kind 9 has been recorded
C26_Witness ==
    /\ last.op = "recordScareResponse"
    /\ WellFormedScare(last.data)
    /\ last.data.Custom.scareType.x = 9
    /\ Len(insertedResponses[FearUnknown]) >= 1
    /\ fearResponses[FearUnknown][Len(fearResponses[FearUnknown])].StrengthOfFear = 800

-----------------------------------------------------------------------------
(* Claims about the dominant kinds *)

\* C27: for the profiles the Observer holds, GetDominantFear and
\* getDominantReactorType have one possible result each, a kind whose value
\* is the maximum of its profile, also when several kinds share the maximum.
C27_DominantKindDetermined ==
    /\ Cardinality(GetDominantFear(fearProfile)) = 1
    /\ Cardinality(DominantReactorTypes(reactorProfile)) = 1
    /\ \A k \in GetDominantFear(fearProfile) :
          \A j \in FearTypes : fearProfile[j] <= fearProfile[k]
    /\ \A k \in DominantReactorTypes(reactorProfile) :
          \A j \in ReactorTypes : reactorProfile[j] <= reactorProfile[k]



-----------------------------------------------------------------------------
(* Claims about the position of a scare event *)

\* C31: every scare event of a kind other than creature-appearance is built
\* with its position equal to the player's current position, and an
\* environment-change event passes that position to ModifyEnvironment.
C31_EventAtPlayerPosition ==
    [][(FireStep /\ FiredEvent.Type # EventCreatureAppearance) =>
         /\ FiredEvent.Position = player.Position
         /\ FiredEvent.Type = EventEnvironmentChange =>
                /\ Len(envCalls') = Len(envCalls) + 1
                /\ envCalls'[Len(envCalls')].Position = player.Position]_vars

-----------------------------------------------------------------------------
(* Claims about the recorded positions *)

\* the 5x5 cell of the grid that contains a position
CellOf(position) == <<position.X \div 5, position.Y \div 5>>

\* the visit counter the Analyzer holds for a position
VisitsAt(a, position) ==
    IF makeKey(position) \in DOMAIN a.areaVisits
    THEN a.areaVisits[makeKey(position)]
    ELSE 0

\* positions on both sides of the western edge, on the player's row
ProbedPositions == {Vector2D(x, 128) : x \in -7..9}

\* the position history after one more recording
RecordedHistory ==
    LET appended == Append(analyzer.positionHistory, player.Position)
    IN  SubSeq(appended, Max(1, Len(appended) - 999), Len(appended))

\* C32: each position recording appends the position to the position history,
\* of which the most recent 1000 are kept, and adds exactly 1 to the visit
\* counter of the 5x5 cell that contains the position and nothing to any other
\* counter: the counter of a position rises if and only if the position lies
\* in the cell of the recorded one, negative coordinates included.
C32_VisitCountedInItsCell ==
    [][AnalyzePlayerStep =>
         /\ analyzer'.positionHistory = RecordedHistory
         /\ \A p \in ProbedPositions :
               VisitsAt(analyzer', p) =
                  VisitsAt(analyzer, p)
                  + (IF CellOf(p) = CellOf(player.Position) THEN 1 ELSE 0)]_vars

\* the same for recordings at positions that are not negative
C32_InsideTheWorld ==
    [][(AnalyzePlayerStep /\ player.Position.X >= 0) =>
         /\ analyzer'.positionHistory = RecordedHistory
         /\ Len(analyzer'.positionHistory) <= 1000
         /\ \A p \in {q \in ProbedPositions : q.X >= 0} :
               VisitsAt(analyzer', p) =
                  VisitsAt(analyzer, p)
                  + (IF CellOf(p) = CellOf(player.Position) THEN 1 ELSE 0)]_vars

-----------------------------------------------------------------------------
(* Claims about the sanity-changed events *)

\* this step has handled a sanity-changed event whose Value is a float64
SanityChangeStep ==
    /\ last'.op = "recordSanityChange"
    /\ last'.data.Value.tag = "float64"

\* C34: a well-formed player-sanity-changed event appends a fear response if
\* and only if the sanity change is negative; the response goes to the end of
\* the Creatures history when the source is a creature and of the Unknown
\* history otherwise, and an event with a zero or positive change leaves all
\* fear histories unchanged.
C34_SanityLossFiled ==
    [][SanityChangeStep =>
         LET data == last'.data
             kind == IF data.Source.tag = "*entity.Creature"
                     THEN FearCreatures ELSE FearUnknown
         IN  IF data.Value.x < 0
             THEN /\ Len(fearResponses'[kind]) = Len(fearResponses[kind]) + 1
                  /\ SubSeq(fearResponses'[kind], 1, Len(fearResponses[kind]))
                        = fearResponses[kind]
                  /\ fearResponses'[kind][Len(fearResponses'[kind])].FearType = kind
                  /\ \A k \in FearTypes \ {kind} :
                        fearResponses'[k] = fearResponses[k]
             ELSE fearResponses' = fearResponses]_vars

\* a loss caused by a creature is filed under Creatures after a loss caused by
\* an object was filed under Unknown
C34_Witness ==
    /\ last.op = "recordSanityChange"
    /\ last.data.Source = Creature(1)
    /\ last.data.Value.x < 0
    /\ Len(fearResponses[FearCreatures]) = 1
    /\ Len(fearResponses[FearUnknown]) = 1

-----------------------------------------------------------------------------
(* Claims about the predicted actions *)

\* the table of the archetypes: the action kinds of a row with their values
ArchetypeRows ==
    [r \in ReactorTypes |->
        CASE r = ReactorCautious ->
               {<<ActionHide, 400>>, <<ActionRetreat, 300>>, <<ActionMove, 200>>,
                <<ActionInvestigate, 100>>}
          [] r = ReactorBold ->
               {<<ActionInvestigate, 400>>, <<ActionAttack, 300>>, <<ActionMove, 200>>,
                <<ActionInteract, 100>>}
          [] r = ReactorPanic ->
               {<<ActionRun, 500>>, <<ActionFreeze, 300>>, <<ActionRetreat, 200>>}
          [] r = ReactorMethodical ->
               {<<ActionInvestigate, 400>>, <<ActionInteract, 300>>, <<ActionMove, 200>>,
                <<ActionHide, 100>>}
          [] r = ReactorReckless ->
               {<<ActionRun, 400>>, <<ActionAttack, 300>>, <<ActionMove, 200>>,
                <<ActionInvestigate, 100>>}
          [] r = ReactorHesitant ->
               {<<ActionFreeze, 400>>, <<ActionMove, 300>>, <<ActionRetreat, 200>>,
                <<ActionHide, 100>>}]

\* the predictions are the row of archetype r, and 0 outside the row
IsRowOf(predictions, r) ==
    \A a \in ActionTypes :
       IF \E v \in 1..1000 : <<a, v>> \in ArchetypeRows[r]
       THEN <<a, predictions[a]>> \in ArchetypeRows[r]
       ELSE predictions[a] = 0

\* C33: after every prediction pass the predicted next-action values are the
\* table row of an archetype whose reactor score is maximal, every action kind
\* absent from the row has value 0, and the eight values sum to 1.
C33_PredictionIsDominantRow ==
    [][ObserverAnalysisStep =>
         /\ DOMAIN predictedActions' = ActionTypes
         /\ \E r \in ReactorTypes :
               /\ \A j \in ReactorTypes : reactorProfile'[j] <= reactorProfile'[r]
               /\ IsRowOf(predictedActions', r)
         /\ SumOver(predictedActions', ActionTypes) = 1000]_vars

\* a player who mostly ran and froze: the row of the panicking archetype
C33_Witness ==
    /\ last.op = "ObserverSystem.AnalyzePlayerBehavior"
    /\ Len(playerActions) >= 10
    /\ reactorProfile[ReactorPanic] = 1000
    /\ predictedActions[ActionRun] = 500
    /\ predictedActions[ActionMove] = 0

-----------------------------------------------------------------------------
(* Claims about callbacks that call the event manager *)

\* C35: ProcessEvents always returns, also when a listener that is being called
\* back triggers a new event on the same event manager: a consumer that has
\* begun ProcessEvents is eventually outside of it again.
C35_ProcessEventsReturns ==
    (goroutines.consumer # "idle") ~> (goroutines.consumer = "idle")

-----------------------------------------------------------------------------
(* Claims about the scare history *)

\* C36: the Director's scare history is append-only: a trigger decision that
\* fires appends exactly one entry at the end, a decision that does not fire
\* appends nothing, and no step removes, reorders or modifies an entry.
C36_ScareHistoryAppendOnly ==
    [][/\ Len(scareHistory') >= Len(scareHistory)
       /\ SubSeq(scareHistory', 1, Len(scareHistory)) = scareHistory
       /\ Len(scareHistory') =
             Len(scareHistory) + (IF DecisionStep /\ last'.fired THEN 1 ELSE 0)]_vars

\* a scare was fired and appended behind the ones
\* fired before
C36_Witness ==
    /\ last.op = "AdjustWorld"
    /\ last.fired
    /\ Len(scareHistory) >= 2
    /\ scareHistory[1] = FiredWhisper
    /\ scareHistory[Len(scareHistory)].Timestamp > scareHistory[1].Timestamp

-----------------------------------------------------------------------------
(* Claims about who writes what *)

\* this step is an operation of the Director, of the Observer
DirectorStep == last'.op \in {"AnalyzePlayerBehavior", "AdjustWorld"}
ObserverStep == last'.op \in HandlerOps \cup {"Update"}

\* C37: the Director's operations (AnalyzePlayerBehavior, AdjustWorld) leave
\* the Observer's action history, fear histories, profiles, context and
\* recommendation list unchanged, and the Observer's operations (the event
\* handlers and Update) leave the Director's tension and scare history and the
\* player's sanity unchanged; the mood is written by neither.
C37_OwnStateOnly ==
    [][/\ DirectorStep =>
             UNCHANGED <<playerActions, fearResponses, fearProfile, reactorProfile,
                         predictedActions, context, recommendedScares>>
       /\ ObserverStep =>
             /\ UNCHANGED <<tension, scareHistory, movementPreference>>
             /\ player'.Sanity = player.Sanity]_vars

\* both components have written their own state: the Director has raised the
\* tension and fired a scare, and the Observer has since run an analysis pass
\* and read the player's sanity
C37_Witness ==
    /\ last.op = "Update"
    /\ tension > InitialTension
    /\ Len(scareHistory) = MaxScares
    /\ player.Sanity < MaxSanity - (MaxScares - 1) * FiredWhisper.Intensity * 5
    /\ recommendedScares # <<>>
    /\ context.CurrentSanity = player.Sanity


\* the call that a step of ModifyEnvironment made
LatestCall == envCalls'[Len(envCalls')]

\* the tile at c lies further from the call's position than the call's radius,
\* 10 + 20 * intensity (both sides multiplied by 50 * 50)
BeyondRadius(c, call) ==
    LET dx == c.X - call.Position.X
        dy == c.Y - call.Position.Y
    IN  (dx * dx + dy * dy) * 2500 > (500 + call.Intensity) * (500 + call.Intensity)

\* C40: through every call of ModifyEnvironment with an intensity in [0, 1]
\* every tile's corruption stays in [0, 1] and does not decrease, a tile beyond
\* the call's radius is as it was, no coordinate outside the world is written,
\* and a tile whose corruption is above 0.7 has type Corrupted and keeps it
C40_CorruptionOnlyGrows ==
    [][last'.op = "ModifyEnvironment" =>
          \A before \in {Tiles(envCalls)}, after \in {Tiles(envCalls')} :
             /\ DOMAIN after = DOMAIN TileList
             /\ TouchedCoordinates(LatestCall.Position, LatestCall.Intensity)
                   \subseteq TileCoordinates
             /\ \A c \in TileCoordinates :
                   /\ TileAt(after, c).Corruption >= 0
                   /\ TileAt(after, c).Corruption <= 1000
                   /\ TileAt(after, c).Corruption >= TileAt(before, c).Corruption
                   /\ BeyondRadius(c, LatestCall) => TileAt(after, c) = TileAt(before, c)
                   /\ TileAt(after, c).Corruption > 700
                         => TileAt(after, c).Type = TileCorrupted
                   /\ TileAt(before, c).Type = TileCorrupted
                         => TileAt(after, c).Type = TileCorrupted]_vars

\* four calls of full intensity in the middle: the tile there is at the limit
\* and Corrupted, a tile nearer the rim is raised but keeps its type, and the
\* tile at the corner is untouched
C40_Witness ==
    /\ last.op = "ModifyEnvironment"
    /\ Len(envCalls) = 4
    /\ TileAt(Tiles(envCalls), Vector2D(128, 128))
          = [Type |-> TileCorrupted, Corruption |-> 1000]
    /\ TileAt(Tiles(envCalls), Vector2D(149, 128)).Corruption \in 1..700
    /\ TileAt(Tiles(envCalls), Vector2D(149, 128)).Type = TileForest
    /\ TileAt(Tiles(envCalls), Vector2D(0, 0)) = [Type |-> TileGrass, Corruption |-> 0]

\* the Director did one of the things it does in this step: a scare event was
\* fired, the tension rose, or the player lost sanity
DirectorActed ==
    \/ Len(scareHistory') > Len(scareHistory)
    \/ tension' > tension
    \/ player'.Sanity < player.Sanity

\* C38: whenever the Director fires a scare event, raises the tension or lowers
\* the player's sanity, the game state at that moment is Playing and the frame
\* counter is a multiple of 30; an update in MainMenu, Paused or GameOver leaves
\* the Director's state and the scare history as they are (the reset builds a
\* new Director and writes nothing into the old one)
C38_DirectorOnlyWhilePlaying ==
    [][last'.op = "Game.Update" =>
          /\ DirectorActed =>
                /\ last'.stateAtDirector = StatePlaying
                /\ game'.frameCount % 30 = 0
          /\ (game.state \in {StateMainMenu, StatePaused, StateGameOver}
                /\ ~last'.reset) => UNCHANGED directorVars]_vars

\* C39: an update that starts in Playing and ends with the player's health or
\* sanity at or below 0 ends in GameOver; the only way out of GameOver is the
\* reset, after which the state is MainMenu, the frame counter 0, health and
\* sanity are full and the Director is new: tension 0.1, mood 0.3, no history
C39_GameOverAndReset ==
    [][last'.op = "Game.Update" =>
          /\ (game.state = StatePlaying
                /\ (player'.Health <= 0 \/ player'.Sanity <= 0))
                => game'.state = StateGameOver
          /\ (game.state = StateGameOver /\ game'.state # StateGameOver)
                => /\ last'.reset
                   /\ game' = [state |-> StateMainMenu, frameCount |-> 0]
                   /\ player'.Health = MaxHealth
                   /\ player'.Sanity = MaxSanity
                   /\ tension' = 100
                   /\ mood = 300
                   /\ scareHistory' = <<>>]_vars

\* a game that was lost to the Director's last scare and then reset
C39_Witness ==
    /\ last.op = "Game.Update"
    /\ last.reset
    /\ game = NewGame
    /\ player.Sanity = MaxSanity
    /\ scareHistory = <<>>

=========================================================================
